---- MODULE Spec2Model ----
(***************************************************************************)
(* Backend sync core of the kitchen calendar kiosk:                        *)
(*   server/src/services/sync.service.js  (syncSource, syncAllSources)     *)
(*   server/src/db/events.js              (events table access)            *)
(*   server/src/db/sync-metadata.js       (sync_metadata table access)     *)
(*   server/src/db/calendar-sources.js    (calendar_sources table access)  *)
(*   server/src/routes/events.js          (events HTTP routes)             *)
(*   server/src/routes/config.js          (POST /trigger, /reset-retry)    *)
(* Tables are sets of rows.  Time is counted in minutes.  A nullable       *)
(* column holds <<>> for NULL and <<v>> for the value v.                   *)
(***************************************************************************)
EXTENDS Integers, Sequences, FiniteSets, Bags, TLC

VARIABLES
    now,        \* Date.now(), in minutes
    sources,    \* calendar_sources table: source id -> [present, isActive, enabled]
    calendars,  \* calendars table: calendar id -> "absent" | "disabled" | "enabled"
    events,     \* events table: set of rows [id, sourceId, calendarId, start, end,
                \* createdAt]
    md,         \* sync_metadata table: set of rows, at most one per sourceId
    inflight,   \* syncSource calls suspended at the network fetch: a bag of tasks
    cycle,      \* the syncAllSources call whose Promise.all is pending
    rets,       \* what the syncSource calls that finished in the last step returned
    allRet,     \* what the syncAllSources call that finished in the last step returned
    last,       \* the source whose retry counter the last step reset, if it did,
                \* and whether the backoff gate was closed for it before
    synced,     \* the source and the fetched events of the last successful
                \* syncSource, while nothing but the clock and the start of
                \* a sync of that source came after it, and whether the
                \* successful syncSource before it had fetched the same
    call,       \* a call of fetchEventsFromSource, getEvents or parseICSData on
                \* given arguments: [fn, args, out]
    syncInterval, \* the handle startBackgroundSync keeps of its interval
                \* timer, or null
    timers,     \* the live interval timers of the process: [id, due]
    \* The browser client
    clock,             \* Date.now() of the browser, in seconds
    syncLocks,         \* syncLocks: source id -> Null or Some([op, timestamp])
    idbEvents,         \* IndexedDB store events: set of rows [id, sourceId]
    idbSyncMetadata,   \* IndexedDB store syncMetadata: source id -> Null or Some(row)
    syncOps,           \* the syncOperation() calls that have not returned
    ctxState,          \* React state of the calendar context
    abortControllerRef,\* abortControllerRef.current: Null or Some(call id)
    fetchCalls         \* the fetchAllEvents calls that have not returned

clientVars == <<clock, syncLocks, idbEvents, idbSyncMetadata, syncOps, ctxState,
                abortControllerRef, fetchCalls>>
serverVars == <<now, sources, calendars, events, md, inflight, cycle, rets, allRet, last, synced,
                call, syncInterval, timers>>
vars == <<serverVars, clientVars>>

-----------------------------------------------------------------------------
(* Bounds of the model *)

MaxTime == 16
MaxInflight == 2
MaxFetch == 2
MaxRetryCount == 4
MaxObjects == 2
MaxQueryTime == 2

(* Program constants *)

MAX_RETRIES == 3

-----------------------------------------------------------------------------
(* Small sets the inputs are drawn from *)

Sources == {"s1", "s2"}
CalIds == {"c1", "c2", "c3"}
UIDs == {"u1", "u2"}
TickSteps == {5, 15}
FetchStart == 2
FetchEnd == 3

\* calendars.source_id: calendar ids are unique over all sources and a
\* calendar id is only ever sent for the source that owns it.
CalOwner(c) == IF c = "c3" THEN "s2" ELSE "s1"

Null == <<>>
Some(x) == <<x>>
Val(n) == n[1]

Min(a, b) == IF a < b THEN a ELSE b

-----------------------------------------------------------------------------
(* db/calendar-sources.js *)

\* A row of calendar_sources, and the entry of an id the table does not hold
SourceRow(enabled) == [present |-> TRUE, isActive |-> TRUE, enabled |-> enabled]
NoSource == [present |-> FALSE, isActive |-> FALSE, enabled |-> FALSE]

\* SELECT * FROM calendar_sources WHERE id = ?: the set of matching rows
\* (empty: null).  is_active is not looked at.
getSourceById(srcs, id) == IF srcs[id].present THEN {srcs[id]} ELSE {}

\* INSERT INTO calendar_sources ... is_active 1, enabled as sent
createSource(srcs, id, enabled) == [srcs EXCEPT ![id] = SourceRow(enabled)]

\* UPDATE calendar_sources SET is_active = 0 WHERE id = ?
deleteSource(srcs, id) ==
    IF srcs[id].present THEN [srcs EXCEPT ![id].isActive = FALSE] ELSE srcs

-----------------------------------------------------------------------------
(* db/calendars.js *)

\* SELECT * FROM calendars WHERE source_id = ? AND enabled = 1
getEnabledCalendarsBySource(cals, sourceId) ==
    {c \in CalIds : CalOwner(c) = sourceId /\ cals[c] = "enabled"}

\* DELETE FROM calendars WHERE source_id = ?
deleteCalendarsBySource(cals, sourceId) ==
    [c \in CalIds |-> IF CalOwner(c) = sourceId THEN "absent" ELSE cals[c]]

\* INSERT INTO calendars ...; enabled is calendarData.enabled ? 1 : 0
createCalendar(cals, c, enabled) ==
    [cals EXCEPT ![c] = IF enabled THEN "enabled" ELSE "disabled"]

-----------------------------------------------------------------------------
(* db/events.js *)

EventsOf(evs, sourceId) == {e \in evs : e.sourceId = sourceId}

\* An ISO date string, new Date(str).getTime() and new Date(t).toISOString()
IsoString(t) == [iso |-> t]
GetTime(str) == str.iso
ToISOString(t) == IsoString(t)

\* Mutant: the window start is compared with the start of the event
Matches_StartAfterWindowStart(e, options) ==
    /\ options.sourceId # Null => e.sourceId = Val(options.sourceId)
    /\ options.calendarId # Null => e.calendarId = Val(options.calendarId)
    /\ options.start # Null => e.start >= GetTime(Val(options.start))
    /\ options.end # Null => e.start <= GetTime(Val(options.end))

\* The WHERE clause getEvents builds.  An option is <<>> when undefined; the
\* strings the events route passes are not empty, so a given option is truthy.
Matches(e, options) ==
    /\ options.sourceId # Null => e.sourceId = Val(options.sourceId)
    /\ options.calendarId # Null => e.calendarId = Val(options.calendarId)
    /\ options.start # Null => e.end >= GetTime(Val(options.start))
    /\ options.end # Null => e.start <= GetTime(Val(options.end))

\* The object getEvents returns for a row
EventView(e) ==
    [id |-> e.id, sourceId |-> e.sourceId, calendarId |-> e.calendarId,
     start |-> ToISOString(e.start), end |-> ToISOString(e.end)]

\* SELECT ... WHERE ... ORDER BY events.start_time ASC: the results the query
\* can give, one for each order of the rows that have the same start_time
getEvents(evs, options) ==
    LET rows == {e \in evs : Matches(e, options)}
        n == Cardinality(rows)
        orders == {q \in [1..n -> rows] :
                      /\ \A j \in 1..n : \A k \in 1..n : q[j] = q[k] => j = k
                      /\ \A k \in 1..(n-1) : q[k].start <= q[k+1].start}
    IN {[k \in 1..n |-> EventView(q[k])] : q \in orders}

\* Mutant: the delete matches no row
deleteEventsBySource_None(evs, sourceId) == evs

\* DELETE FROM events WHERE source_id = ?
deleteEventsBySource(evs, sourceId) == {e \in evs : e.sourceId # sourceId}

\* events.calendar_id REFERENCES calendars(id) ON DELETE CASCADE
CascadeCalendars(evs, cals) == {e \in evs : cals[e.calendarId] # "absent"}

\* INSERT OR REPLACE INTO events: the primary key is id alone, so a row with
\* the same id is removed first, whichever source it belongs to.
InsertOrReplace(evs, row) == {e \in evs : e.id # row.id} \cup {row}

\* The loop of the transaction.  A row whose start or end is not a number is
\* skipped; a row whose calendar_id names no calendar or whose source_id
\* names no source violates a foreign key and the statement throws.
\* created_at and updated_at are both the time t of the call.
RECURSIVE InsertAll(_, _, _, _)
InsertAll(evs, dbEvents, cals, t) ==
    IF dbEvents = <<>> THEN [ok |-> TRUE, events |-> evs]
    ELSE LET event == Head(dbEvents) IN
         IF ~event.valid THEN InsertAll(evs, Tail(dbEvents), cals, t)
         ELSE IF cals[event.calendarId] = "absent" \/ ~sources[event.sourceId].present
              THEN [ok |-> FALSE, events |-> evs]
         ELSE InsertAll(InsertOrReplace(evs,
                            [id |-> event.id, sourceId |-> event.sourceId,
                             calendarId |-> event.calendarId,
                             start |-> event.start, end |-> event.end,
                             createdAt |-> t]),
                        Tail(dbEvents), cals, t)

\* db.transaction(...)(events): all rows or, when a statement throws, none.
\* count is the value returned: events.length.
saveEvents(evs, dbEvents, cals, t) ==
    LET r == InsertAll(evs, dbEvents, cals, t) IN
    IF r.ok THEN [ok |-> TRUE, events |-> r.events, count |-> Len(dbEvents)]
    ELSE [ok |-> FALSE, events |-> evs, count |-> 0]

-----------------------------------------------------------------------------
(* db/sync-metadata.js *)

Truthy(n) == n # Null /\ Val(n) # 0
OrNullStr(str) == IF str = "" THEN "null" ELSE str

\* SELECT * FROM sync_metadata WHERE source_id = ?: the set of matching rows
\* (empty: null), times read back as `col ? new Date(col) : null`.
getSyncMetadata(table, sourceId) ==
    {[r EXCEPT !.lastSyncTime = IF Truthy(r.lastSyncTime) THEN r.lastSyncTime ELSE Null,
               !.nextRetryTime = IF Truthy(r.nextRetryTime) THEN r.nextRetryTime ELSE Null]
        : r \in {x \in table : x.sourceId = sourceId}}

Row(m) == CHOOSE r \in m : TRUE

Has(updates, f) == f \in DOMAIN updates

\* Mutant: an existing row is left as it is
updateSyncMetadata_InsertOnly(table, sourceId, updates) ==
    IF {x \in table : x.sourceId = sourceId} # {} \/ DOMAIN updates = {} THEN table
    ELSE table \cup {[
            sourceId |-> sourceId,
            lastSyncTime |-> IF Has(updates, "lastSyncTime") /\ Truthy(updates.lastSyncTime)
                             THEN updates.lastSyncTime ELSE Null,
            lastSyncStatus |-> IF Has(updates, "lastSyncStatus")
                               THEN OrNullStr(updates.lastSyncStatus) ELSE "null",
            lastError |-> IF Has(updates, "lastError")
                          THEN OrNullStr(updates.lastError) ELSE "null",
            retryCount |-> IF Has(updates, "retryCount") THEN updates.retryCount ELSE 0,
            nextRetryTime |-> IF Has(updates, "nextRetryTime") /\ Truthy(updates.nextRetryTime)
                              THEN updates.nextRetryTime ELSE Null ]}

\* updates is a record holding the fields that are not undefined.
updateSyncMetadata(table, sourceId, updates) ==
    LET existingMetadata == {x \in table : x.sourceId = sourceId} IN
    IF DOMAIN updates = {} THEN table
    ELSE IF existingMetadata = {} THEN
        table \cup {[
            sourceId |-> sourceId,
            lastSyncTime |-> IF Has(updates, "lastSyncTime") /\ Truthy(updates.lastSyncTime)
                             THEN updates.lastSyncTime ELSE Null,
            lastSyncStatus |-> IF Has(updates, "lastSyncStatus")
                               THEN OrNullStr(updates.lastSyncStatus) ELSE "null",
            lastError |-> IF Has(updates, "lastError")
                          THEN OrNullStr(updates.lastError) ELSE "null",
            retryCount |-> IF Has(updates, "retryCount") THEN updates.retryCount ELSE 0,
            nextRetryTime |-> IF Has(updates, "nextRetryTime") /\ Truthy(updates.nextRetryTime)
                              THEN updates.nextRetryTime ELSE Null ]}
    ELSE
        LET old == Row(existingMetadata) IN
        (table \ existingMetadata) \cup {[
            sourceId |-> sourceId,
            lastSyncTime |-> IF Has(updates, "lastSyncTime")
                             THEN updates.lastSyncTime ELSE old.lastSyncTime,
            lastSyncStatus |-> IF Has(updates, "lastSyncStatus")
                               THEN updates.lastSyncStatus ELSE old.lastSyncStatus,
            lastError |-> IF Has(updates, "lastError")
                          THEN updates.lastError ELSE old.lastError,
            retryCount |-> IF Has(updates, "retryCount")
                           THEN updates.retryCount ELSE old.retryCount,
            nextRetryTime |-> IF Has(updates, "nextRetryTime")
                              THEN updates.nextRetryTime ELSE old.nextRetryTime ]}

\* Mutant: the reset clears the retry time and the error, not the count
resetRetryCount_KeepsCount(table, sourceId) ==
    updateSyncMetadata(table, sourceId, [nextRetryTime |-> Null, lastError |-> "null"])

\* Mutant: the reset zeroes the count and leaves the retry time
resetRetryCount_KeepsRetryTime(table, sourceId) ==
    updateSyncMetadata(table, sourceId, [retryCount |-> 0, lastError |-> "null"])

resetRetryCount(table, sourceId) ==
    updateSyncMetadata(table, sourceId,
        [retryCount |-> 0, nextRetryTime |-> Null, lastError |-> "null"])

\* const backoffMinutes = [1, 5, 15]
backoffMinutes == <<1, 5, 15>>

\* Mutant: the delay is indexed by newRetryCount instead of newRetryCount - 1
incrementRetryCount_IndexOff(table, sourceId, error, t) ==
    LET metadata == getSyncMetadata(table, sourceId)
        newRetryCount == (IF metadata = {} THEN 0 ELSE Row(metadata).retryCount) + 1
        delayMinutes == backoffMinutes[Min(newRetryCount, Len(backoffMinutes) - 1) + 1]
        nextRetryTime == t + delayMinutes
    IN updateSyncMetadata(table, sourceId,
        [retryCount |-> newRetryCount, nextRetryTime |-> Some(nextRetryTime),
         lastError |-> error, lastSyncStatus |-> "error"])

incrementRetryCount(table, sourceId, error, t) ==
    LET metadata == getSyncMetadata(table, sourceId)
        newRetryCount == (IF metadata = {} THEN 0 ELSE Row(metadata).retryCount) + 1
        delayMinutes == backoffMinutes[Min(newRetryCount - 1, Len(backoffMinutes) - 1) + 1]
        nextRetryTime == t + delayMinutes
    IN updateSyncMetadata(table, sourceId,
        [retryCount |-> newRetryCount, nextRetryTime |-> Some(nextRetryTime),
         lastError |-> error, lastSyncStatus |-> "error"])

RetryCountOf(table, sourceId) ==
    LET m == getSyncMetadata(table, sourceId) IN IF m = {} THEN 0 ELSE Row(m).retryCount

-----------------------------------------------------------------------------
(* services/sync.service.js *)

\* What a syncSource call returns, with the events its fetch had returned
NoRet == [kind |-> "none", error |-> "", count |-> 0, fetched |-> <<>>]
Pending == [kind |-> "pending", error |-> "", count |-> 0, fetched |-> <<>>]
Success(n, f) == [kind |-> "success", error |-> "", count |-> n, fetched |-> f]
Failure(msg) == [kind |-> "error", error |-> msg, count |-> 0, fetched |-> <<>>]
\* The call did not return: its promise was rejected with msg
Thrown(msg) == [kind |-> "thrown", error |-> msg, count |-> 0, fetched |-> <<>>]
NoRets == [s \in Sources |-> NoRet]
NoAllRet == [returned |-> FALSE, success |-> FALSE, results |-> NoRets]
NoCycle == [running |-> FALSE, results |-> NoRets]
NoLast == [reset |-> "none", gated |-> FALSE]
NoSynced == <<>>
Synced(sourceId, fetched, again) ==
    <<[src |-> sourceId, fetched |-> fetched, again |-> again]>>
\* What is remembered once the syncSource call of sourceId returned ret
SyncedAfter(before, sourceId, ret) ==
    IF ret.kind = "success"
    THEN Synced(sourceId, ret.fetched,
                before # NoSynced /\ before[1].src = sourceId
                                  /\ before[1].fetched = ret.fetched)
    ELSE NoSynced
NoCall == [fn |-> "none", args |-> <<>>, out |-> <<>>]

\* Error messages
RetryLimitExceeded == "Retry limit exceeded"
FetchError == "fetch failed"
ConstraintError == "FOREIGN KEY constraint failed"

\* A task is [src, cals, inCycle]: the source, the enabled calendars read
\* before the fetch, and whether syncAllSources awaits it.
Room(tasks) == MaxInflight - BagCardinality(tasks)
TasksOf(tasks, sourceId) == {task \in BagToSet(tasks) : task.src = sourceId}

\* Mutant: the gate compares with > instead of >=
RetryGate_OffByOne(table, sourceId, t) ==
    LET metadata == getSyncMetadata(table, sourceId) IN
    /\ metadata # {}
    /\ Row(metadata).retryCount > MAX_RETRIES
    /\ Row(metadata).nextRetryTime # Null
    /\ t < Val(Row(metadata).nextRetryTime)

\* Mutant: the gate never looks at the clock: a source that reached the
\* limit stays shut
RetryGate_NeverReopens(table, sourceId, t) ==
    LET metadata == getSyncMetadata(table, sourceId) IN
    /\ metadata # {}
    /\ Row(metadata).retryCount >= MAX_RETRIES
    /\ Row(metadata).nextRetryTime # Null

\* The backoff gate of syncSource
RetryGate(table, sourceId, t) ==
    LET metadata == getSyncMetadata(table, sourceId) IN
    /\ metadata # {}
    /\ Row(metadata).retryCount >= MAX_RETRIES
    /\ Row(metadata).nextRetryTime # Null
    /\ t < Val(Row(metadata).nextRetryTime)

\* What fetchEventsFromSource can return for the enabled calendars it read:
\* the parsed events of those calendars, in the order fetched.  valid is
\* FALSE for an event whose start or end is null; saveEvents skips such an
\* event whatever its id and calendar, so one of them stands for all.
\* In the sync specifications every remote event starts at FetchStart and
\* ends at FetchEnd.
NoTimes(cals) == [id |-> "u1", calendarId |-> CHOOSE c \in cals : TRUE, valid |-> FALSE,
                  start |-> FetchStart, end |-> FetchEnd]
FetchedEvent(cals) ==
    IF cals = {} THEN {}
    ELSE [id : UIDs, calendarId : cals, valid : {TRUE},
          start : {FetchStart}, end : {FetchEnd}] \cup {NoTimes(cals)}
FetchResults(cals) == UNION {[1..n -> FetchedEvent(cals)] : n \in 0..MaxFetch}

\* Mutant: when rows are cached for the source the replace only deletes them
ReplaceEvents_DeletesWhenCached(st, sourceId, fetched, cals, t) ==
    LET dbEvents == IF EventsOf(st.events, sourceId) # {} THEN <<>>
                    ELSE [i \in 1..Len(fetched) |->
                        [id |-> fetched[i].id, sourceId |-> sourceId,
                         calendarId |-> fetched[i].calendarId, valid |-> fetched[i].valid,
                         start |-> fetched[i].start, end |-> fetched[i].end]]
        cleared == deleteEventsBySource(st.events, sourceId)
        saved == saveEvents(cleared, dbEvents, cals, t)
    IN IF saved.ok
       THEN [st EXCEPT !.events = saved.events,
                       !.md = updateSyncMetadata(st.md, sourceId,
                                  [lastSyncTime |-> Some(t), lastSyncStatus |-> "success",
                                   lastError |-> "null", retryCount |-> 0,
                                   nextRetryTime |-> Null]),
                       !.rets[sourceId] = Success(Len(fetched), fetched)]
       ELSE [st EXCEPT !.events = saved.events,
                       !.md = incrementRetryCount(st.md, sourceId, ConstraintError, t),
                       !.rets[sourceId] = Failure(ConstraintError)]

\* syncSource after the fetch returned: map to rows, delete the source's
\* rows, insert the new rows, record success; a throw anywhere lands in the
\* catch block.  st is the record [events, md, inflight, rets].
ReplaceEvents(st, sourceId, fetched, cals, t) ==
    LET dbEvents == [i \in 1..Len(fetched) |->
                        [id |-> fetched[i].id, sourceId |-> sourceId,
                         calendarId |-> fetched[i].calendarId, valid |-> fetched[i].valid,
                         start |-> fetched[i].start, end |-> fetched[i].end]]
        cleared == deleteEventsBySource(st.events, sourceId)
        saved == saveEvents(cleared, dbEvents, cals, t)
    IN IF saved.ok
       THEN [st EXCEPT !.events = saved.events,
                       !.md = updateSyncMetadata(st.md, sourceId,
                                  [lastSyncTime |-> Some(t), lastSyncStatus |-> "success",
                                   lastError |-> "null", retryCount |-> 0,
                                   nextRetryTime |-> Null]),
                       !.rets[sourceId] = Success(saved.count, fetched)]
       ELSE [st EXCEPT !.events = saved.events,
                       !.md = incrementRetryCount(st.md, sourceId, ConstraintError, t),
                       !.rets[sourceId] = Failure(ConstraintError)]

\* Mutant: the source's rows are deleted before the fetch is known to have
\* succeeded, so a failed fetch leaves the source without events.
SyncFailed_DeletesEvents(st, sourceId, t) ==
    [st EXCEPT !.events = deleteEventsBySource(st.events, sourceId),
               !.md = incrementRetryCount(st.md, sourceId, FetchError, t),
               !.rets[sourceId] = Failure(FetchError)]

\* The catch block of syncSource for an error thrown by the fetch
SyncFailed(st, sourceId, t) ==
    [st EXCEPT !.md = incrementRetryCount(st.md, sourceId, FetchError, t),
               !.rets[sourceId] = Failure(FetchError)]

\* Mutant: a source without enabled calendars counts as a failed sync
SyncSourceStart_NoCalendarsFails(st, sourceId, inCycle, cals, t) ==
    IF getSourceById(sources, sourceId) = {}
    THEN [st EXCEPT !.rets[sourceId] = Thrown(ConstraintError)]
    ELSE IF RetryGate(st.md, sourceId, t)
    THEN [st EXCEPT !.rets[sourceId] = Failure(RetryLimitExceeded)]
    ELSE LET enabledCalendars == getEnabledCalendarsBySource(cals, sourceId) IN
         IF enabledCalendars = {}
         THEN SyncFailed(st, sourceId, t)
         ELSE [st EXCEPT !.inflight = st.inflight (+)
                    SetToBag({[src |-> sourceId, cals |-> enabledCalendars,
                               inCycle |-> inCycle]})]

\* syncSource up to its first network await.  For an id getSourceById does
\* not find, the catch block calls incrementRetryCount, whose INSERT INTO
\* sync_metadata violates the foreign key on source_id and throws out of
\* syncSource.
SyncSourceStart(st, sourceId, inCycle, cals, t) ==
    IF getSourceById(sources, sourceId) = {}
    THEN [st EXCEPT !.rets[sourceId] = Thrown(ConstraintError)]
    ELSE IF RetryGate(st.md, sourceId, t)
    THEN [st EXCEPT !.rets[sourceId] = Failure(RetryLimitExceeded)]
    ELSE LET enabledCalendars == getEnabledCalendarsBySource(cals, sourceId) IN
         IF enabledCalendars = {}
         THEN ReplaceEvents(st, sourceId, <<>>, cals, t)
         ELSE [st EXCEPT !.inflight = st.inflight (+)
                    SetToBag({[src |-> sourceId, cals |-> enabledCalendars,
                               inCycle |-> inCycle]})]

\* Whether a syncSource call made now would suspend at a network fetch
WouldFetch(sourceId) ==
    /\ getSourceById(sources, sourceId) # {}
    /\ ~RetryGate(md, sourceId, now)
    /\ getEnabledCalendarsBySource(calendars, sourceId) # {}

Cur == [events |-> events, md |-> md, inflight |-> inflight, rets |-> NoRets]

\* Row order of calendar_sources
SourceOrder == <<"s1", "s2">>

\* SELECT * FROM calendar_sources WHERE is_active = 1 (enabled is not looked at)
IsActive(s) == sources[s].present /\ sources[s].isActive
getAllSources == SelectSeq(SourceOrder, IsActive)
InCycle(s) == \E k \in 1..Len(getAllSources) : getAllSources[k] = s

RECURSIVE StartAll(_, _)
StartAll(st, srcs) ==
    IF srcs = <<>> THEN st
    ELSE StartAll(SyncSourceStart(st, Head(srcs), TRUE, calendars, now), Tail(srcs))

\* Mutant: a failed syncSource rejects, and Promise.all with it: the failure
\* stands for every source of the cycle.
Deliver_FailFast(cyc, sourceId, ret) ==
    IF ret.kind = "error"
    THEN [cyc EXCEPT !.results = [s \in Sources |-> ret]]
    ELSE [cyc EXCEPT !.results[sourceId] = ret]

\* The results of a cycle once the syncSource call of sourceId returned ret
Deliver(cyc, sourceId, ret) == [cyc EXCEPT !.results[sourceId] = ret]
AllIn(cyc) == \A s \in Sources : cyc.results[s].kind # "pending"

-----------------------------------------------------------------------------
(* services/sync.service.js: fetchEventsFromSource *)

\* What the remote side answers for one enabled calendar.
\*   ics feed: "down" (fetch throws), "http" (non-2xx), or "body" with
\*     objects = <<"good">> (the body parses) or <<"bad">> (it does not);
\*   CalDAV: "unmatched" (no remote collection has the calendar's URL),
\*     "throws" (fetchCalendarObjects throws), or "objects" with the objects
\*     of the collection: "good" parses, "bad" does not, "nodata" has no data.
Answer(kind, objects) == [kind |-> kind, objects |-> objects]
ObjectSeqs == UNION {[1..n -> {"good", "bad", "nodata"}] : n \in 0..MaxObjects}
IcsAnswers == {Answer("down", <<>>), Answer("http", <<>>),
               Answer("body", <<"good">>), Answer("body", <<"bad">>)}
CalDAVAnswers == {Answer("unmatched", <<>>), Answer("throws", <<>>)}
                    \cup {Answer("objects", o) : o \in ObjectSeqs}

\* The event parseICSData makes of a good object of calendar c
UidOf(c) == IF c = "c1" THEN "u1" ELSE "u2"
CalEvent(c) == [id |-> UidOf(c), calendarId |-> c, valid |-> TRUE,
                start |-> FetchStart, end |-> FetchEnd]

\* The state of a fetch: whether it threw, the events pushed so far, and the
\* calendars whose feed or objects were requested from the remote side.
FetchStarted == [threw |-> FALSE, events |-> <<>>, requested |-> {}]
Throw(acc, c) == [threw |-> TRUE, events |-> <<>>, requested |-> acc.requested \cup {c}]

\* One round of the ics loop: a failed fetch, a non-2xx response and a body
\* parseICSData cannot parse all throw out of the loop.
IcsCalendar(acc, c, answer) ==
    IF answer.kind \in {"down", "http"} THEN Throw(acc, c)
    ELSE IF answer.objects = <<"bad">> THEN Throw(acc, c)
    ELSE [acc EXCEPT !.events = acc.events \o <<CalEvent(c)>>,
                     !.requested = acc.requested \cup {c}]

\* The inner loop over the objects of a CalDAV calendar
RECURSIVE ParseObjects(_, _)
ParseObjects(c, objects) ==
    IF objects = <<>> THEN <<>>
    ELSE (IF Head(objects) = "good" THEN <<CalEvent(c)>> ELSE <<>>)
            \o ParseObjects(c, Tail(objects))

\* Mutant: an error of fetchCalendarObjects is not caught
CalDAVCalendar_Propagates(acc, c, answer) ==
    IF answer.kind = "unmatched" THEN acc
    ELSE IF answer.kind = "throws" THEN Throw(acc, c)
    ELSE [acc EXCEPT !.events = acc.events \o ParseObjects(c, answer.objects),
                     !.requested = acc.requested \cup {c}]

\* One round of the CalDAV loop
CalDAVCalendar(acc, c, answer) ==
    IF answer.kind = "unmatched" THEN acc
    ELSE IF answer.kind = "throws"
         THEN [acc EXCEPT !.requested = acc.requested \cup {c}]
    ELSE [acc EXCEPT !.events = acc.events \o ParseObjects(c, answer.objects),
                     !.requested = acc.requested \cup {c}]

RECURSIVE FetchCalendars(_, _, _, _)
FetchCalendars(sourceType, acc, cals, answers) ==
    IF cals = <<>> \/ acc.threw THEN acc
    ELSE FetchCalendars(sourceType,
            IF sourceType = "ics" THEN IcsCalendar(acc, Head(cals), answers[Head(cals)])
            ELSE CalDAVCalendar(acc, Head(cals), answers[Head(cals)]),
            Tail(cals), answers)

\* args: sourceType, enabledCalendars (in row order), connect and list
\* ("ok", "fail"; list may be "empty"), answers (per enabled calendar)
fetchEventsFromSource(args) ==
    IF args.enabledCalendars = <<>> THEN FetchStarted
    ELSE IF args.sourceType = "ics"
         THEN FetchCalendars("ics", FetchStarted, args.enabledCalendars, args.answers)
    ELSE IF args.connect = "fail" \/ args.list = "fail"
         THEN [FetchStarted EXCEPT !.threw = TRUE]
    ELSE IF args.list = "empty" THEN FetchStarted
    ELSE FetchCalendars("caldav", FetchStarted, args.enabledCalendars, args.answers)

-----------------------------------------------------------------------------
(* Actions *)

\* The browser client before its first call: empty IndexedDB stores, no
\* lock, no call in progress, nothing displayed
ClientSources == {"s1"}
NoCtxState == [events |-> {}, loading |-> FALSE, error |-> Null, syncMetadata |-> Null,
               appliedBy |-> Null]
InitClient ==
    /\ clock = 0
    /\ syncLocks = [s \in ClientSources |-> Null]
    /\ idbEvents = {}
    /\ idbSyncMetadata = [s \in ClientSources |-> Null]
    /\ syncOps = {}
    /\ ctxState = NoCtxState
    /\ abortControllerRef = Null
    /\ fetchCalls = {}

Init ==
    /\ now = 1
    /\ sources = [s \in Sources |-> SourceRow(TRUE)]
    /\ calendars = [c \in CalIds |-> "enabled"]
    /\ events = {}
    /\ md = {}
    /\ inflight = EmptyBag
    /\ cycle = NoCycle
    /\ rets = NoRets
    /\ allRet = NoAllRet
    /\ last = NoLast
    /\ synced = NoSynced
    /\ call = NoCall
    /\ syncInterval = Null
    /\ timers = {}
    /\ InitClient

\* Time passes
Tick(d) ==
    /\ now + d <= MaxTime
    /\ now' = now + d
    /\ rets' = NoRets
    /\ allRet' = NoAllRet
    /\ last' = NoLast
    /\ UNCHANGED <<sources, calendars, events, md, inflight, cycle, synced, call, syncInterval, timers, clientVars>>

\* POST /api/sync/trigger {sourceId}: syncSource(sourceId) up to its fetch
TriggerSource(sourceId) ==
    /\ WouldFetch(sourceId) => Room(inflight) >= 1
    /\ LET st == SyncSourceStart(Cur, sourceId, FALSE, calendars, now) IN
        /\ events' = st.events
        /\ md' = st.md
        /\ inflight' = st.inflight
        /\ rets' = st.rets
        /\ synced' = IF st.rets[sourceId].kind = "none"
                     THEN IF synced = NoSynced \/ synced[1].src = sourceId
                          THEN synced ELSE NoSynced
                     ELSE SyncedAfter(synced, sourceId, st.rets[sourceId])
    /\ allRet' = NoAllRet
    /\ last' = NoLast
    /\ UNCHANGED <<now, sources, calendars, cycle, call, syncInterval, timers, clientVars>>

\* syncAllSources() from the timer or POST /api/sync/trigger without sourceId
StartCycle ==
    /\ ~cycle.running
    /\ Cardinality({s \in Sources : InCycle(s) /\ WouldFetch(s)}) <= Room(inflight)
    /\ LET st == StartAll(Cur, getAllSources)
           cyc == [running |-> TRUE,
                   results |-> [s \in Sources |->
                        IF InCycle(s) /\ st.rets[s] = NoRet THEN Pending ELSE st.rets[s]]]
       IN
        /\ events' = st.events
        /\ md' = st.md
        /\ inflight' = st.inflight
        /\ rets' = st.rets
        /\ IF AllIn(cyc)
           THEN /\ cycle' = NoCycle
                /\ allRet' = [returned |-> TRUE, success |-> TRUE, results |-> cyc.results]
           ELSE /\ cycle' = cyc
                /\ allRet' = NoAllRet
    /\ last' = NoLast
    /\ synced' = NoSynced
    /\ UNCHANGED <<now, sources, calendars, call, syncInterval, timers, clientVars>>

\* The part of a finished syncSource call that depends on who awaits it
Finish(task, st) ==
    /\ events' = st.events
    /\ md' = st.md
    /\ inflight' = st.inflight (-) SetToBag({task})
    /\ rets' = st.rets
    /\ IF task.inCycle
       THEN LET cyc == Deliver(cycle, task.src, st.rets[task.src]) IN
            IF AllIn(cyc)
            THEN /\ cycle' = NoCycle
                 /\ allRet' = [returned |-> TRUE, success |-> TRUE, results |-> cyc.results]
            ELSE /\ cycle' = cyc
                 /\ allRet' = NoAllRet
       ELSE /\ cycle' = cycle
            /\ allRet' = NoAllRet
    /\ last' = NoLast
    /\ synced' = SyncedAfter(synced, task.src, st.rets[task.src])
    /\ UNCHANGED <<now, sources, calendars, call, syncInterval, timers, clientVars>>

\* The fetch of a task returns the events `fetched`
FetchSucceeded(task, fetched) ==
    /\ BagIn(task, inflight)
    /\ fetched \in FetchResults(task.cals)
    /\ LET st == ReplaceEvents(Cur, task.src, fetched, calendars, now) IN
        /\ st.rets[task.src].kind = "error" => RetryCountOf(md, task.src) < MaxRetryCount
        /\ Finish(task, st)

\* The fetch of a task throws (HTTP error, connection failure, timeout)
FetchFailed(task) ==
    /\ BagIn(task, inflight)
    /\ RetryCountOf(md, task.src) < MaxRetryCount
    /\ Finish(task, SyncFailed(Cur, task.src, now))

\* POST /api/sync/reset-retry/:sourceId
ResetRetry(sourceId) ==
    /\ md' = IF sources[sourceId].present THEN resetRetryCount(md, sourceId) ELSE md
    /\ rets' = NoRets
    /\ allRet' = NoAllRet
    /\ last' = [reset |-> sourceId, gated |-> RetryGate(md, sourceId, now)]
    /\ synced' = NoSynced
    /\ UNCHANGED <<now, sources, calendars, events, inflight, cycle, call, syncInterval, timers, clientVars>>

\* PUT /api/config/sources/:id with a calendars array: updateSource deletes the
\* source's calendars (the events of a deleted calendar go with it) and
\* creates the ones sent (ids), enabled for those in enabledIds.
UpdateSourceCalendars(sourceId, ids, enabledIds) ==
    /\ getSourceById(sources, sourceId) # {}
    /\ \A c \in ids : CalOwner(c) = sourceId
    /\ enabledIds \subseteq ids
    /\ LET deleted == deleteCalendarsBySource(calendars, sourceId) IN
        /\ calendars' = [c \in CalIds |->
                IF c \in ids THEN createCalendar(deleted, c, c \in enabledIds)[c]
                ELSE deleted[c]]
        /\ events' = CascadeCalendars(events, deleted)
    /\ rets' = NoRets
    /\ allRet' = NoAllRet
    /\ last' = NoLast
    /\ synced' = NoSynced
    /\ UNCHANGED <<now, sources, md, inflight, cycle, call, syncInterval, timers, clientVars>>

\* The state after construction: createTables leaves every table empty
InitEmpty ==
    /\ now = 1
    /\ sources = [s \in Sources |-> NoSource]
    /\ calendars = [c \in CalIds |-> "absent"]
    /\ events = {}
    /\ md = {}
    /\ inflight = EmptyBag
    /\ cycle = NoCycle
    /\ rets = NoRets
    /\ allRet = NoAllRet
    /\ last = NoLast
    /\ synced = NoSynced
    /\ call = NoCall
    /\ syncInterval = Null
    /\ timers = {}
    /\ InitClient

\* POST /api/config/sources (or /sources/batch for a new id): createSource
\* inserts the source and its calendars
CreateSource(sourceId, enabled, ids, enabledIds) ==
    /\ getSourceById(sources, sourceId) = {}
    /\ \A c \in ids : CalOwner(c) = sourceId
    /\ enabledIds \subseteq ids
    /\ sources' = createSource(sources, sourceId, enabled)
    /\ calendars' = [c \in CalIds |->
            IF c \in ids THEN createCalendar(calendars, c, c \in enabledIds)[c]
            ELSE calendars[c]]
    /\ rets' = NoRets
    /\ allRet' = NoAllRet
    /\ last' = NoLast
    /\ synced' = NoSynced
    /\ UNCHANGED <<now, events, md, inflight, cycle, call, syncInterval, timers, clientVars>>

\* DELETE /api/config/sources/:id: 404 for an id not found, else soft delete
DeleteSource(sourceId) ==
    /\ getSourceById(sources, sourceId) # {}
    /\ sources' = deleteSource(sources, sourceId)
    /\ rets' = NoRets
    /\ allRet' = NoAllRet
    /\ last' = NoLast
    /\ synced' = NoSynced
    /\ UNCHANGED <<now, calendars, events, md, inflight, cycle, call, syncInterval, timers, clientVars>>

\* PUT /api/config/sources/:id with enabled and no calendars array
UpdateSourceEnabled(sourceId, enabled) ==
    /\ getSourceById(sources, sourceId) # {}
    /\ sources' = [sources EXCEPT ![sourceId].enabled = enabled]
    /\ rets' = NoRets
    /\ allRet' = NoAllRet
    /\ last' = NoLast
    /\ synced' = NoSynced
    /\ UNCHANGED <<now, calendars, events, md, inflight, cycle, call, syncInterval, timers, clientVars>>

\* POST /api/events {events}: saveEvents(events)
PostEvents(dbEvents) ==
    /\ events' = saveEvents(events, dbEvents, calendars, now).events
    /\ rets' = NoRets
    /\ allRet' = NoAllRet
    /\ last' = NoLast
    /\ synced' = NoSynced
    /\ UNCHANGED <<now, sources, calendars, md, inflight, cycle, call, syncInterval, timers, clientVars>>

\* DELETE /api/events/:id: 404 for an id not found, else deleteEvent
DeleteEvent(id) ==
    /\ \E e \in events : e.id = id
    /\ events' = {e \in events : e.id # id}
    /\ rets' = NoRets
    /\ allRet' = NoAllRet
    /\ last' = NoLast
    /\ synced' = NoSynced
    /\ UNCHANGED <<now, sources, calendars, md, inflight, cycle, call, syncInterval, timers, clientVars>>

\* DELETE /api/events/source/:sourceId: deleteEventsBySource
DeleteSourceEvents(sourceId) ==
    /\ events' = deleteEventsBySource(events, sourceId)
    /\ rets' = NoRets
    /\ allRet' = NoAllRet
    /\ last' = NoLast
    /\ synced' = NoSynced
    /\ UNCHANGED <<now, sources, calendars, md, inflight, cycle, call, syncInterval, timers, clientVars>>

\* The replace of one source's events: overlapping syncs of the source,
\* every fetch result, and replacement of the source's calendars meanwhile.
ReplaceSource == "s1"

Next ==
    \/ TriggerSource(ReplaceSource)
    \/ \E task \in BagToSet(inflight) : \E f \in FetchResults(task.cals) : FetchSucceeded(task, f)
    \/ \E task \in BagToSet(inflight) : FetchFailed(task)
    \/ \E ids \in SUBSET CalIds : UpdateSourceCalendars(ReplaceSource, ids, ids)

Spec == Init /\ [][Next]_vars

\* Two sources: sync cycles and manual triggers side by side, every fetch
\* returning at most one event, with its start and end.
CrossFetches(cals) == {<<>>} \cup {<<e>> : e \in {x \in FetchedEvent(cals) : x.valid}}

NextCross ==
    \/ \E s \in Sources : TriggerSource(s)
    \/ StartCycle
    \/ \E task \in BagToSet(inflight) : \E f \in CrossFetches(task.cals) : FetchSucceeded(task, f)
    \/ \E task \in BagToSet(inflight) : FetchFailed(task)

SpecCross == Init /\ [][NextCross]_vars

\* Retry and backoff of one source over time
RetrySource == "s1"
RetryFetches == {<<>>, <<[id |-> "u1", calendarId |-> "c1", valid |-> TRUE,
                         start |-> FetchStart, end |-> FetchEnd]>>}

NextRetry ==
    \/ \E d \in TickSteps : Tick(d)
    \/ TriggerSource(RetrySource)
    \/ \E task \in BagToSet(inflight) : \E f \in RetryFetches : FetchSucceeded(task, f)
    \/ \E task \in BagToSet(inflight) : FetchFailed(task)
    \/ ResetRetry(RetrySource)

SpecRetry == Init /\ [][NextRetry]_vars

\* fetchEventsFromSource on every remote behaviour, for the enabled calendars
\* c1, c2 of a source in either order
FetchCalSeqs == {<<>>, <<"c1">>, <<"c2">>, <<"c1", "c2">>, <<"c2", "c1">>}
Range(q) == {q[k] : k \in 1..Len(q)}
FetchArgs ==
    UNION {
        {[sourceType |-> "ics", enabledCalendars |-> cals, connect |-> "ok",
          list |-> "ok", answers |-> a] : a \in [Range(cals) -> IcsAnswers]}
        \cup
        {[sourceType |-> "caldav", enabledCalendars |-> cals, connect |-> x[1],
          list |-> x[2], answers |-> a] :
            x \in {<<"ok", "ok">>, <<"fail", "ok">>, <<"ok", "fail">>, <<"ok", "empty">>},
            a \in [Range(cals) -> CalDAVAnswers]}
        : cals \in FetchCalSeqs}

InitFetch ==
    /\ now = 1
    /\ sources = [s \in Sources |-> SourceRow(TRUE)]
    /\ calendars = [c \in CalIds |-> "enabled"]
    /\ events = {}
    /\ md = {}
    /\ inflight = EmptyBag
    /\ cycle = NoCycle
    /\ rets = NoRets
    /\ allRet = NoAllRet
    /\ last = NoLast
    /\ synced = NoSynced
    /\ call \in {[fn |-> "fetchEventsFromSource", args |-> a, out |-> <<>>] : a \in FetchArgs}
    /\ syncInterval = Null
    /\ timers = {}
    /\ InitClient

\* The call returns or throws
FetchEvents ==
    /\ call.fn = "fetchEventsFromSource"
    /\ call.out = <<>>
    /\ call' = [call EXCEPT !.out = <<fetchEventsFromSource(call.args)>>]
    /\ UNCHANGED <<now, sources, calendars, events, md, inflight, cycle, rets, allRet, last, synced,
                 syncInterval, timers, clientVars>>

NextFetch == FetchEvents

SpecFetch == InitFetch /\ [][NextFetch]_vars

\* getEvents on every table of up to two rows and every combination of options
QueryTimes == 0..MaxQueryTime
QueryRows == {r \in [id : UIDs, sourceId : Sources, calendarId : {"c1", "c3"},
                     start : QueryTimes, end : QueryTimes, createdAt : {1}] :
                 CalOwner(r.calendarId) = r.sourceId /\ r.start <= r.end}
\* id is the primary key: a table holds at most one row for each id
QueryTables ==
    {UNION {pick[u] : u \in UIDs} :
        pick \in {f \in [UIDs -> {{}} \cup {{r} : r \in QueryRows}] :
                     \A u \in UIDs : \A r \in f[u] : r.id = u}}
Optional(S) == {Null} \cup {Some(x) : x \in S}
QueryOptions == [sourceId : Optional(Sources), calendarId : Optional({"c1", "c3"}),
                 start : Optional({IsoString(t) : t \in QueryTimes}),
                 end : Optional({IsoString(t) : t \in QueryTimes})]

InitQuery ==
    /\ now = 1
    /\ sources = [s \in Sources |-> SourceRow(TRUE)]
    /\ calendars = [c \in CalIds |-> "enabled"]
    /\ events \in QueryTables
    /\ md = {}
    /\ inflight = EmptyBag
    /\ cycle = NoCycle
    /\ rets = NoRets
    /\ allRet = NoAllRet
    /\ last = NoLast
    /\ synced = NoSynced
    /\ call \in {[fn |-> "getEvents", args |-> o, out |-> <<>>] : o \in QueryOptions}
    /\ syncInterval = Null
    /\ timers = {}
    /\ InitClient

\* GET /api/events: the query returns one of its possible results
GetEvents ==
    /\ call.fn = "getEvents"
    /\ call.out = <<>>
    /\ \E result \in getEvents(events, call.args) :
          call' = [call EXCEPT !.out = <<result>>]
    /\ UNCHANGED <<now, sources, calendars, events, md, inflight, cycle, rets, allRet, last, synced,
                 syncInterval, timers, clientVars>>

NextQuery == GetEvents

SpecQuery == InitQuery /\ [][NextQuery]_vars

\* Configuration and the events routes next to syncs: one source is created,
\* updated and soft-deleted; the other id is never in the table.
AdminSource == "s1"
PostedEvents == [id : UIDs, sourceId : Sources, calendarId : CalIds, valid : {TRUE},
                 start : {FetchStart}, end : {FetchEnd}]

NextAdmin ==
    \/ \E enabled \in BOOLEAN : \E ids \in SUBSET CalIds :
          CreateSource(AdminSource, enabled, ids, ids)
    \/ DeleteSource(AdminSource)
    \/ \E enabled \in BOOLEAN : UpdateSourceEnabled(AdminSource, enabled)
    \/ \E ids \in SUBSET CalIds : UpdateSourceCalendars(AdminSource, ids, ids)
    \/ \E s \in Sources : TriggerSource(s)
    \/ StartCycle
    \/ \E task \in BagToSet(inflight) : \E f \in CrossFetches(task.cals) : FetchSucceeded(task, f)
    \/ \E task \in BagToSet(inflight) : FetchFailed(task)
    \/ \E row \in PostedEvents : PostEvents(<<row>>)
    \/ \E id \in UIDs : DeleteEvent(id)
    \/ DeleteSourceEvents(AdminSource)

SpecAdmin == InitEmpty /\ [][NextAdmin]_vars

-----------------------------------------------------------------------------
(* Properties *)

MetaRows(sourceId) == {r \in md : r.sourceId = sourceId}
Started(sourceId) ==
    \E task \in BagToSet(inflight') :
        task.src = sourceId /\ CopiesIn(task, inflight') > CopiesIn(task, inflight)
Returned(sourceId) == rets'[sourceId].kind # "none"

\* C1: a syncSource attempt whose fetch throws does not change the rows
\* cached for its source, neither when it starts its fetch nor when the fetch
\* fails, however many failures came before.
C1_FailedFetchKeepsCache ==
    [][\A s \in Sources :
          (Started(s) \/ rets'[s] = Failure(FetchError))
             => EventsOf(events', s) = EventsOf(events, s)]_vars

\* C1 witness: a second consecutive failed fetch after a successful sync,
\* with rows still cached for the source.
C1_Witness ==
    /\ rets[ReplaceSource] = Failure(FetchError)
    /\ EventsOf(events, ReplaceSource) # {}
    /\ \E r \in MetaRows(ReplaceSource) : r.retryCount >= 2 /\ r.lastSyncTime # Null

\* C2: the replace is all-or-nothing: a syncSource call that returns a
\* failure leaves the rows cached for its source as they were.
C2_ReplaceIsAtomic ==
    [][\A s \in Sources :
          (Returned(s) /\ rets'[s].kind # "success")
             => EventsOf(events', s) = EventsOf(events, s)]_vars

\* The row saveEvents stores now for a fetched event
RowOf(sourceId, e) ==
    [id |-> e.id, sourceId |-> sourceId, calendarId |-> e.calendarId,
     start |-> e.start, end |-> e.end, createdAt |-> now]

\* C3 as stated: after a successful syncSource the rows cached for the source
\* are exactly the fetched occurrences, none missing and none left over.
C3_CacheIsExactlyTheFetch ==
    \A s \in Sources :
        rets[s].kind = "success"
           => EventsOf(events, s) =
                 {RowOf(s, rets[s].fetched[k]) : k \in 1..Len(rets[s].fetched)}

\* C3 amended: after a successful syncSource the rows cached for the source
\* are exactly the fetched occurrences that have a start and an end, one per
\* id (the last one fetched); no row of an earlier sync remains.
Kept(f) == {k \in 1..Len(f) :
               f[k].valid /\ \A j \in (k+1)..Len(f) : ~(f[j].valid /\ f[j].id = f[k].id)}

C3_CacheIsTheFetchByIdValid ==
    \A s \in Sources :
        rets[s].kind = "success"
           => EventsOf(events, s) = {RowOf(s, rets[s].fetched[k]) : k \in Kept(rets[s].fetched)}

\* C3 witness: a successful sync that drops a row cached by an earlier sync
\* and stores one row for two fetched occurrences with the same id.
C3_Witness ==
    /\ rets[ReplaceSource].kind = "success"
    /\ Len(rets[ReplaceSource].fetched) = 2
    /\ rets[ReplaceSource].fetched[1].id = rets[ReplaceSource].fetched[2].id
    /\ rets[ReplaceSource].fetched[1].valid /\ rets[ReplaceSource].fetched[2].valid
    /\ Cardinality(EventsOf(events, ReplaceSource)) = 1

\* C4: no two syncSource calls for the same source are in flight together
C4_NoOverlappingSyncs ==
    \A s \in Sources :
        BagCardinality([task \in TasksOf(inflight, s) |-> inflight[task]]) <= 1

\* The gate condition in the words of the specification: three or more
\* retries and a retry time still ahead
GateClosed(s) ==
    \E r \in MetaRows(s) :
        r.retryCount >= 3 /\ r.nextRetryTime # Null /\ now < Val(r.nextRetryTime)

\* C5: a syncSource call for a source whose retryCount is at least 3 and whose
\* nextRetryTime is ahead starts no fetch, returns a failure and changes
\* neither the cached rows nor the sync metadata.
C5_GateSkipsSync ==
    [][\A s \in Sources :
          (GateClosed(s) /\ TriggerSource(s))
             => /\ inflight' = inflight
                /\ rets'[s].kind = "error"
                /\ events' = events
                /\ md' = md]_vars

\* C5 witness: a gated call has just returned for a source with cached rows
C5_Witness ==
    /\ GateClosed(RetrySource)
    /\ rets[RetrySource] = Failure(RetryLimitExceeded)
    /\ EventsOf(events, RetrySource) # {}

Retries(s) == IF MetaRows(s) = {} THEN 0 ELSE (CHOOSE r \in MetaRows(s) : TRUE).retryCount
FailedAttempt(s) == rets'[s].kind = "error" /\ rets'[s].error # RetryLimitExceeded

\* C6: the first, second and third consecutive failed attempts set retryCount
\* to 1, 2, 3 and nextRetryTime to the failure time plus 1, 5, 15 minutes; an
\* attempt made after the third failure and before that time starts no fetch.
C6_BackoffProgression ==
    [][\A s \in Sources :
          /\ (FailedAttempt(s) /\ Retries(s) < 3)
                => \E r \in md' :
                      /\ r.sourceId = s
                      /\ r.retryCount = Retries(s) + 1
                      /\ r.nextRetryTime =
                            Some(now + (CASE Retries(s) = 0 -> 1
                                          [] Retries(s) = 1 -> 5
                                          [] Retries(s) = 2 -> 15))
          /\ (Retries(s) = 3 /\ GateClosed(s) /\ TriggerSource(s)) => ~Started(s)
      ]_vars

\* C6 witness: after three failures, the fourth attempt was turned away
C6_Witness ==
    /\ rets[RetrySource] = Failure(RetryLimitExceeded)
    /\ \E r \in MetaRows(RetrySource) :
          r.retryCount = 3 /\ r.lastSyncStatus = "error" /\ r.nextRetryTime = Some(now + 15)

\* C7: when syncSource has returned success, the metadata row of the source
\* has lastSyncStatus success, retryCount 0, no nextRetryTime and no lastError.
C7_SuccessResetsMetadata ==
    \A s \in Sources :
        rets[s].kind = "success"
           => /\ MetaRows(s) # {}
              /\ \A r \in MetaRows(s) :
                    /\ r.lastSyncStatus = "success"
                    /\ r.retryCount = 0
                    /\ r.nextRetryTime = Null
                    /\ r.lastError = "null"

\* C7 witness: a success returned after the clock has moved on
C7_Witness ==
    /\ rets[RetrySource].kind = "success"
    /\ now > 1
    /\ \E r \in MetaRows(RetrySource) : r.lastSyncTime = Some(now)

\* C8: resetRetryCount sets retryCount to 0 and clears nextRetryTime without
\* touching the cached rows, and the syncSource call that comes next starts a
\* fetch (when the source has an enabled calendar).
C8_ResetReopensSource ==
    [][\A s \in Sources :
          /\ ResetRetry(s)
                => /\ \E r \in md' :
                         r.sourceId = s /\ r.retryCount = 0 /\ r.nextRetryTime = Null
                   /\ events' = events
          /\ (last.reset = s /\ TriggerSource(s))
                => /\ rets'[s] # Failure(RetryLimitExceeded)
                   /\ getEnabledCalendarsBySource(calendars, s) # {} => Started(s)
      ]_vars

\* C8 witness: the retry counter of a gated source with cached rows was reset
C8_Witness ==
    /\ last = [reset |-> RetrySource, gated |-> TRUE]
    /\ EventsOf(events, RetrySource) # {}
    /\ ~GateClosed(RetrySource)

\* C9: syncAllSources returns success with one result per source, each the
\* result of that source's own syncSource call; a result delivered to the
\* cycle is not changed by what the other sources do, and a source whose fetch
\* returns gets a success, its rows replaced and its metadata set to success,
\* whatever the other sources' fetches did.
C9_CycleIsolatesSources ==
    [][/\ allRet'.returned
            => /\ allRet'.success
               /\ \A s \in Sources :
                     /\ allRet'.results[s].kind \in {"success", "error"}
                     /\ \/ allRet'.results[s] = rets'[s]
                        \/ /\ rets'[s].kind = "none"
                           /\ cycle.running
                           /\ allRet'.results[s] = cycle.results[s]
       /\ \A s \in Sources :
             (cycle.running /\ cycle'.running /\ cycle.results[s].kind # "pending")
                => cycle'.results[s] = cycle.results[s]
       /\ \A task \in BagToSet(inflight) : \A f \in CrossFetches(task.cals) :
             (task.inCycle /\ FetchSucceeded(task, f))
                => /\ rets'[task.src] = Success(Len(f), f)
                   /\ EventsOf(events', task.src) = {RowOf(task.src, f[k]) : k \in 1..Len(f)}
                   /\ \E r \in md' : r.sourceId = task.src /\ r.lastSyncStatus = "success"
      ]_vars

\* C9 witness: a cycle has returned with a failed fetch for one source and a
\* success, with rows cached, for the other.
C9_Witness ==
    /\ allRet.returned
    /\ allRet.results["s1"] = Failure(FetchError)
    /\ allRet.results["s2"].kind = "success"
    /\ EventsOf(events, "s2") # {}

\* C10: a sync of one source leaves the rows cached for every other source as
\* they were.
C10_SyncKeepsOtherSources ==
    [][\A a \in Sources : \A b \in Sources \ {a} :
          (Returned(a) /\ ~Returned(b)) => EventsOf(events', b) = EventsOf(events, b)]_vars

\* C11: syncSource for an id that is absent or soft-deleted returns a failure
\* result, starts no fetch and leaves the cache as it was.
C11_UnknownSourceFailsFast ==
    [][\A s \in Sources :
          (TriggerSource(s) /\ ~IsActive(s))
             => /\ rets'[s].kind = "error"
                /\ inflight' = inflight
                /\ events' = events]_vars

\* C11, absent id only: the call returns a result rather than throwing
C11_AbsentSourceReturns ==
    [][\A s \in Sources :
          (TriggerSource(s) /\ getSourceById(sources, s) = {}) => rets'[s].kind = "error"]_vars

\* C11, soft-deleted source only: the call starts no fetch
C11_InactiveSourceNotFetched ==
    [][\A s \in Sources :
          (TriggerSource(s) /\ sources[s].present /\ ~sources[s].isActive)
             => inflight' = inflight /\ events' = events]_vars

\* C12: a sync cycle calls syncSource for the enabled sources only: for a
\* source whose enabled flag is false it starts no fetch and changes neither
\* the cached rows nor the sync metadata.
C12_CycleSkipsDisabledSources ==
    [][\A s \in Sources :
          (StartCycle /\ sources[s].present /\ ~sources[s].enabled)
             => /\ ~Started(s)
                /\ rets'[s].kind = "none"
                /\ EventsOf(events', s) = EventsOf(events, s)
                /\ {r \in md' : r.sourceId = s} = MetaRows(s)]_vars

\* C13 as stated: for a source without enabled calendars syncSource starts no
\* fetch, returns success with zero occurrences and records a success with
\* retryCount 0.
C13_NoCalendarsIsSuccess ==
    [][\A s \in Sources :
          (TriggerSource(s) /\ sources[s].present
              /\ getEnabledCalendarsBySource(calendars, s) = {})
             => /\ inflight' = inflight
                /\ rets'[s] = Success(0, <<>>)
                /\ \E r \in md' :
                      r.sourceId = s /\ r.lastSyncStatus = "success" /\ r.retryCount = 0]_vars

\* C13 amended: the same for a source whose backoff gate is open; a gated
\* source gets the failure of the gate, enabled calendars or not.
C13_NoCalendarsIsSuccessUnlessGated ==
    [][\A s \in Sources :
          (TriggerSource(s) /\ sources[s].present
              /\ getEnabledCalendarsBySource(calendars, s) = {})
             => IF GateClosed(s)
                THEN /\ rets'[s] = Failure(RetryLimitExceeded)
                     /\ inflight' = inflight /\ md' = md /\ events' = events
                ELSE /\ inflight' = inflight
                     /\ rets'[s] = Success(0, <<>>)
                     /\ EventsOf(events', s) = {}
                     /\ \E r \in md' :
                           /\ r.sourceId = s
                           /\ r.lastSyncStatus = "success"
                           /\ r.retryCount = 0
                           /\ r.nextRetryTime = Null]_vars

\* C13 witness: a source without enabled calendars has just been synced:
\* success, zero occurrences, nothing in flight.
C13_Witness ==
    /\ rets[ReplaceSource] = Success(0, <<>>)
    /\ getEnabledCalendarsBySource(calendars, ReplaceSource) = {}
    /\ inflight = EmptyBag
    /\ \E r \in MetaRows(ReplaceSource) :
          r.lastSyncStatus = "success" /\ r.retryCount = 0 /\ r.lastError = "null"

\* The finished call of fetchEventsFromSource, its arguments and its outcome
FetchDone == call.fn = "fetchEventsFromSource" /\ call.out # <<>>
FetchOut == call.out[1]
AnswerOf(c) == call.args.answers[c]

\* The events of the calendars in cals whose feed or objects arrived, those
\* that parse, in order
RECURSIVE Parsable(_)
Parsable(cals) ==
    IF cals = <<>> THEN <<>>
    ELSE (IF AnswerOf(Head(cals)).kind \in {"body", "objects"}
          THEN ParseObjects(Head(cals), AnswerOf(Head(cals)).objects) ELSE <<>>)
            \o Parsable(Tail(cals))

\* C14: for an ics source a non-2xx response for one calendar's feed does not
\* keep the remaining enabled calendars from being fetched: a calendar whose
\* predecessors answered with a good body or a non-2xx response is fetched.
C14_HttpErrorKeepsSiblings ==
    (FetchDone /\ call.args.sourceType = "ics")
       => \A k \in 1..Len(call.args.enabledCalendars) :
             (\A j \in 1..(k-1) :
                 LET a == AnswerOf(call.args.enabledCalendars[j]) IN
                 a.kind = "http" \/ a = Answer("body", <<"good">>))
                => call.args.enabledCalendars[k] \in FetchOut.requested

\* C15: a CalDAV object or an ics feed body that cannot be parsed is skipped
\* and does not fail the fetch: when nothing else goes wrong the fetch returns
\* the events of everything that parses.
C15_UnparsableIsSkipped ==
    (/\ FetchDone
     /\ call.args.connect = "ok" /\ call.args.list = "ok"
     /\ \A c \in Range(call.args.enabledCalendars) : AnswerOf(c).kind \in {"body", "objects"})
       => /\ ~FetchOut.threw
          /\ FetchOut.events = Parsable(call.args.enabledCalendars)

\* C16: for a CalDAV source with enabled calendars the fetch throws exactly
\* when connecting or listing the remote calendars fails; otherwise every
\* enabled calendar that matches a remote collection is fetched, whatever its
\* siblings answered, and the events of the calendars that answered are returned.
C16_CalDAVCalendarFailuresAreSkipped ==
    (FetchDone /\ call.args.sourceType = "caldav" /\ call.args.enabledCalendars # <<>>)
       => /\ FetchOut.threw <=> (call.args.connect = "fail" \/ call.args.list = "fail")
          /\ (call.args.connect = "ok" /\ call.args.list = "ok")
                => /\ FetchOut.requested =
                         {c \in Range(call.args.enabledCalendars) :
                             AnswerOf(c).kind # "unmatched"}
                   /\ FetchOut.events = Parsable(call.args.enabledCalendars)

\* C16 witness: the object fetch of the first calendar threw; the second was
\* still fetched and the event of its good object returned.
C16_Witness ==
    /\ FetchDone
    /\ call.args.sourceType = "caldav"
    /\ call.args.enabledCalendars = <<"c1", "c2">>
    /\ AnswerOf("c1").kind = "throws"
    /\ AnswerOf("c2") = Answer("objects", <<"bad", "good">>)
    /\ ~FetchOut.threw
    /\ FetchOut.events = <<CalEvent("c2")>>

\* The fields of a cached row that come from the fetched event, without the
\* created_at and updated_at the events table adds
Materialized(rows) ==
    {[id |-> r.id, sourceId |-> r.sourceId, calendarId |-> r.calendarId,
      start |-> r.start, end |-> r.end] : r \in rows}

\* A successful syncSource of s returns in this step, having fetched what the
\* successful syncSource of s before it had fetched, nothing else in between
SameFetchAgain(s) ==
    /\ synced # NoSynced
    /\ synced[1].src = s
    /\ rets'[s].kind = "success"
    /\ rets'[s].fetched = synced[1].fetched

\* C17: a second successful syncSource in a row that fetches the same events
\* leaves the rows cached for the source, ids and materialized fields, as the
\* first left them.
C17_ReplaceIsIdempotent ==
    [][\A s \in Sources :
          SameFetchAgain(s)
             => Materialized(EventsOf(events', s)) = Materialized(EventsOf(events, s))]_vars

\* C17 witness: the second of two successful syncs in a row with the same
\* fetched event has returned, after the clock has moved on.
C17_Witness ==
    /\ synced # NoSynced
    /\ synced[1].again
    /\ synced[1].fetched # <<>>
    /\ rets[RetrySource].kind = "success"
    /\ \E r \in EventsOf(events, RetrySource) : r.createdAt = now /\ now > 1

\* C20: getEvents returns exactly the cached occurrences that match every
\* filter given, the window keeping an occurrence iff its end is not before
\* the start filter and its start is not after the end filter, each once,
\* ordered by start ascending.
C20_QueryReturnsTheMatchingRows ==
    (call.fn = "getEvents" /\ call.out # <<>>)
       => LET o == call.args
              result == call.out[1]
              expected ==
                 {e \in events :
                     /\ o.sourceId = Null \/ e.sourceId = o.sourceId[1]
                     /\ o.calendarId = Null \/ e.calendarId = o.calendarId[1]
                     /\ o.start = Null \/ e.end >= o.start[1].iso
                     /\ o.end = Null \/ e.start <= o.end[1].iso}
          IN /\ Len(result) = Cardinality(expected)
             /\ {result[k] : k \in 1..Len(result)} =
                   {[id |-> e.id, sourceId |-> e.sourceId, calendarId |-> e.calendarId,
                     start |-> [iso |-> e.start], end |-> [iso |-> e.end]] : e \in expected}
             /\ \A k \in 1..(Len(result) - 1) : result[k].start.iso <= result[k+1].start.iso

\* C20 witness: a query with all four filters on a table of two rows of the
\* same calendar, one of them ending before the window starts: the result is
\* the other row, which starts before the window and ends in it.
C20_Witness ==
    /\ call.fn = "getEvents" /\ call.out # <<>>
    /\ call.args = [sourceId |-> Some("s1"), calendarId |-> Some("c1"),
                    start |-> Some(IsoString(1)), end |-> Some(IsoString(2))]
    /\ Cardinality(events) = 2
    /\ \A e \in events : e.calendarId = "c1"
    /\ \E e \in events : e.end = 0
    /\ Len(call.out[1]) = 1
    /\ call.out[1][1].start = IsoString(0) /\ call.out[1][1].end = IsoString(1)

\* C18: cached rows are added and removed only by the replace of syncSource:
\* the events table changes only in a step in which a syncSource call returns.
C18_OnlySyncChangesCache ==
    [][events' # events => \E s \in Sources : Returned(s)]_vars

\* No filter but the source
BySource(s) == [sourceId |-> Some(s), calendarId |-> Null, start |-> Null, end |-> Null]

\* C19: every cached row names a source that exists and is not soft-deleted
\* and an existing calendar of that source; the event query returns no row
\* for a soft-deleted source.
C19_RowsReferenceLiveSources ==
    /\ \A e \in events :
          /\ IsActive(e.sourceId)
          /\ calendars[e.calendarId] # "absent"
          /\ CalOwner(e.calendarId) = e.sourceId
    /\ \A s \in Sources :
          (sources[s].present /\ ~sources[s].isActive) => getEvents(events, BySource(s)) = {<<>>}

\* C19, the soft delete alone: right after DELETE /sources/:id the event
\* query returns no row of the source.
C19_SoftDeleteHidesRows ==
    [][\A s \in Sources : DeleteSource(s) => getEvents(events', BySource(s)) = {<<>>}]_vars

\* ---------------------------------------------------------------------
\* services/sync.service.js: parseICSData, the materializer.
\* Times are counted in minutes: an ICAL.Time is its wall-clock reading t
\* (minutes since 2025-01-01T00:00), a JS Date is minutes since the same
\* instant in UTC. A time has a zone id ("UTC", or "floating" when the
\* value names no zone); a date value has isDate set and is floating.
\* ---------------------------------------------------------------------
MaxCount == 5
maxOccurrences == 500
cstOffsetMinutes == 360

MinutesPerDay == 24 * 60
DayOf(t) == t \div MinutesPerDay
IcalTime(isDate, zone, t) == [isDate |-> isDate, zone |-> zone, t |-> t]

\* process.env.DEFAULT_TIMEZONE || 'America/Chicago'
defaultTimezone(env) ==
    IF env.DEFAULT_TIMEZONE = Null THEN "America/Chicago" ELSE Val(env.DEFAULT_TIMEZONE)

extractTimezone(icalTime, env) ==
    IF icalTime = Null THEN Null
    ELSE IF Val(icalTime).isDate THEN Null
    ELSE IF Val(icalTime).zone = "floating" THEN Some(defaultTimezone(env))
    ELSE Some(Val(icalTime).zone)

\* ICAL.Time.toUnixTime: seconds of the reading taken as UTC (a floating
\* reading has offset 0)
toUnixTime(icalTime) == icalTime.t * 60

\* ICAL.Time.toJSDate: a floating reading is read in the server's zone
toJSDate(icalTime, env) ==
    IF icalTime.zone = "floating" THEN icalTime.t + env.serverOffsetMinutes ELSE icalTime.t

\* A date value becomes 00:00 instead of 12:00 UTC
icalTimeToDate_Midnight(icalTime, detectedTimezone, env) ==
    IF icalTime = Null THEN Null
    ELSE IF Val(icalTime).isDate THEN Some(DayOf(Val(icalTime).t) * MinutesPerDay)
    ELSE Some(toJSDate(Val(icalTime), env))

icalTimeToDate(icalTime, detectedTimezone, env) ==
    IF icalTime = Null THEN Null
    ELSE IF Val(icalTime).isDate
         THEN Some(DayOf(Val(icalTime).t) * MinutesPerDay + 12 * 60)
    ELSE IF Val(icalTime).zone = "floating" /\ detectedTimezone # Null
         THEN LET localDate == Val(icalTime).t + env.serverOffsetMinutes
                  adjustmentMinutes == cstOffsetMinutes - env.serverOffsetMinutes
              IN  Some(localDate + adjustmentMinutes)
    ELSE Some(toJSDate(Val(icalTime), env))

\* ICAL.Event.isRecurring: the VEVENT has a recurrence rule
isRecurring(vevent) == vevent.rrule # Null

\* The recurrence iterator of ical.js (event.iterator(startTime)): the
\* series starts at startTime || DTSTART and steps by the rule's period; it
\* ends with COUNT instances or after UNTIL; an instance on an EXDATE is
\* passed over by next().
IteratorStart(vevent, startDate) ==
    IF startDate # Null THEN Val(startDate) ELSE vevent.dtstart.t
Period(rrule) == IF rrule.freq = "DAILY" THEN MinutesPerDay ELSE 7 * MinutesPerDay
Candidate(vevent, base, k) == base + k * Period(Val(vevent.rrule))
\* COUNT lets one instance too many through
InRule_CountInclusive(vevent, base, k) ==
    /\ Val(vevent.rrule).count # Null => k <= Val(Val(vevent.rrule).count)
    /\ Val(vevent.rrule).until # Null => Candidate(vevent, base, k) <= Val(Val(vevent.rrule).until)

InRule(vevent, base, k) ==
    /\ Val(vevent.rrule).count # Null => k < Val(Val(vevent.rrule).count)
    /\ Val(vevent.rrule).until # Null => Candidate(vevent, base, k) <= Val(Val(vevent.rrule).until)

\* expand.next() ignores the EXDATEs
IterNext_KeepsExcluded(vevent, base, k) ==
    IF ~InRule(vevent, base, k) THEN Null ELSE Some(k)

RECURSIVE IterNext(_, _, _)
\* expand.next() from instance k on: the index of the instance it returns,
\* Null when the series is over
IterNext(vevent, base, k) ==
    IF ~InRule(vevent, base, k) THEN Null
    ELSE IF Candidate(vevent, base, k) \in vevent.exdates THEN IterNext(vevent, base, k + 1)
    ELSE Some(k)

\* The id of a recurring occurrence leaves the candidate's time out
OccurrenceId_UidOnly(uid, next) == <<uid>>

\* `${event.uid}_${next.toUnixTime()}`
OccurrenceId(uid, next) == <<uid, "_", toUnixTime(next)>>

\* The end of a VEVENT: DTEND, or DTSTART + DURATION
EndDate(vevent) ==
    IcalTime(vevent.dtstart.isDate, vevent.dtstart.zone, vevent.dtstart.t + vevent.duration)

\* new ICAL.Event(vevent): the event of a VEVENT that is no override may
\* relate to itself, as exceptions, the VEVENTs of the same calendar object
\* that carry a RECURRENCE-ID (strictExceptions is not set: whatever their
\* UID).  Whether the constructor does so depends on the version of ical.js
\* installed, which the repository does not pin: env.relatesExceptions.
ICALEvent(vevent, siblings, env) ==
    [uid |-> vevent.uid, dtstart |-> vevent.dtstart, duration |-> vevent.duration,
     rrule |-> vevent.rrule, exdates |-> vevent.exdates,
     recurrenceId |-> vevent.recurrenceId,
     exceptions |-> IF vevent.recurrenceId # Null \/ ~env.relatesExceptions THEN {}
                    ELSE {siblings[i] : i \in {j \in 1..Len(siblings) :
                                                  siblings[j].recurrenceId # Null}}]

\* The exceptions of the event whose RECURRENCE-ID is the candidate
ExceptionsAt(event, next) == {x \in event.exceptions : Val(x.recurrenceId) = next.t}

\* event.getOccurrenceDetails(next) and the object pushed for it: with an
\* exception related for the candidate the exception's start and end, else
\* the candidate and the candidate plus the event's duration
Occurrence(vevent, next, calendarId, env) ==
    LET item == ExceptionsAt(vevent, next)
        startDate == IF item # {} THEN (CHOOSE x \in item : TRUE).dtstart ELSE next
        endDate == IF item # {} THEN EndDate(CHOOSE x \in item : TRUE)
                   ELSE IcalTime(next.isDate, next.zone, next.t + vevent.duration)
        startTz == extractTimezone(Some(startDate), env)
    IN  [id |-> OccurrenceId(vevent.uid, next),
         start |-> icalTimeToDate(Some(startDate), startTz, env),
         end |-> icalTimeToDate(Some(endDate), startTz, env),
         allDay |-> startDate.isDate,
         calendarId |-> calendarId,
         isRecurring |-> TRUE,
         timezone |-> startTz]

\* The loop goes on while fewer than maxOccurrences + 1 were counted
LoopGuard_OneMore(occurrenceCount) == occurrenceCount <= maxOccurrences

LoopGuard(occurrenceCount) == occurrenceCount < maxOccurrences

\* One pass of while ((next = expand.next()) && occurrenceCount <
\* maxOccurrences): its test and its body, on the loop's variables st (the
\* iterator at instance k, occurrenceCount, events; done once the loop is left)
LoopPass(ctx, st) ==
    LET nxt == IterNext(ctx.vevent, ctx.base, st.k) IN
    IF st.done THEN st
    ELSE IF nxt = Null \/ ~LoopGuard(st.occurrenceCount) THEN [st EXCEPT !.done = TRUE]
    ELSE LET next == IcalTime(ctx.vevent.dtstart.isDate, ctx.vevent.dtstart.zone,
                              Candidate(ctx.vevent, ctx.base, Val(nxt)))
         IN  IF ctx.endDate # Null /\ next.t > Val(ctx.endDate)
                  THEN [st EXCEPT !.done = TRUE]
             ELSE IF ctx.startDate # Null /\ next.t < Val(ctx.startDate)
                  THEN [st EXCEPT !.k = Val(nxt) + 1, !.occurrenceCount = @ + 1]
             ELSE [k |-> Val(nxt) + 1,
                   occurrenceCount |-> st.occurrenceCount + 1,
                   events |-> Append(st.events,
                       Occurrence(ctx.vevent, next, ctx.calendarId, ctx.env)),
                   done |-> FALSE]

\* The passes followed for one VEVENT: twice the cap, so that a loop that
\* outruns the cap shows as not done
MaxPasses == 2 * maxOccurrences

RECURSIVE ExpandLoop(_, _, _)
\* The loop, followed for at most n passes
ExpandLoop(ctx, st, n) ==
    IF st.done \/ n = 0 THEN st
    ELSE IF n = 1 THEN LoopPass(ctx, st)
    ELSE ExpandLoop(ctx, ExpandLoop(ctx, st, n \div 2), n - n \div 2)

\* The recurring branch for one VEVENT
Expand(vevent, calendarId, timeMin, timeMax, env) ==
    ExpandLoop([vevent |-> vevent, base |-> IteratorStart(vevent, timeMin),
                startDate |-> timeMin, endDate |-> timeMax,
                calendarId |-> calendarId, env |-> env],
               [k |-> 0, occurrenceCount |-> 0, events |-> <<>>, done |-> FALSE],
               MaxPasses)

\* The non-recurring branch for one VEVENT
Single(vevent, calendarId, timeMin, timeMax, env) ==
    LET eventStart == vevent.dtstart
        eventEnd == IcalTime(vevent.dtstart.isDate, vevent.dtstart.zone,
                             vevent.dtstart.t + vevent.duration)
        startTz == extractTimezone(Some(eventStart), env)
    IN  IF timeMin # Null /\ eventEnd.t < Val(timeMin) THEN <<>>
        ELSE IF timeMax # Null /\ eventStart.t > Val(timeMax) THEN <<>>
        ELSE <<[id |-> <<vevent.uid>>,
                start |-> icalTimeToDate(Some(eventStart), startTz, env),
                end |-> icalTimeToDate(Some(eventEnd), startTz, env),
                allDay |-> eventStart.isDate,
                calendarId |-> calendarId,
                isRecurring |-> FALSE,
                timezone |-> startTz]>>

RECURSIVE ParseVevents(_, _, _, _, _)
ParseVevents(vevents, calendarId, timeMin, timeMax, env) ==
    IF vevents = <<>> THEN <<>>
    ELSE (IF isRecurring(Head(vevents))
          THEN Expand(Head(vevents), calendarId, timeMin, timeMax, env).events
          ELSE Single(Head(vevents), calendarId, timeMin, timeMax, env))
         \o ParseVevents(Tail(vevents), calendarId, timeMin, timeMax, env)

\* icsData is what ICAL.parse makes of the text: not parsable, or VEVENTs
parseICSData(icsData, calendarId, timeMin, timeMax, env) ==
    IF ~icsData.parsable THEN [threw |-> TRUE, events |-> <<>>]
    ELSE [threw |-> FALSE,
          events |-> ParseVevents(
                        [i \in 1..Len(icsData.vevents) |->
                            ICALEvent(icsData.vevents[i], icsData.vevents, env)],
                        calendarId, timeMin, timeMax, env)]

\* ---------------------------------------------------------------------
\* The materializer alone: one call of parseICSData on the VEVENTs of one
\* calendar object, as fetchEventsFromSource makes it (no window).
\* ---------------------------------------------------------------------
\* 2025-07-15 and 2025-11-02, as days since 2025-01-01
EventDays == {195, 305}

\* DTSTART: a date, a floating 09:30, or 10:00 UTC
StartTimes ==
    UNION {{IcalTime(TRUE, "floating", d * MinutesPerDay),
            IcalTime(FALSE, "floating", d * MinutesPerDay + 9 * 60 + 30),
            IcalTime(FALSE, "UTC", d * MinutesPerDay + 10 * 60)} : d \in EventDays}

\* DTEND - DTSTART: one day for a date, one hour for a time
DurationOf(dtstart) == IF dtstart.isDate THEN MinutesPerDay ELSE 60

\* UNTIL at the end of the n-th day of the series
EndOfDay(dtstart, n) == (DayOf(dtstart.t) + n - 1) * MinutesPerDay + MinutesPerDay - 1

\* RRULE: DAILY or WEEKLY; open-ended, with COUNT, or with UNTIL
Rules(dtstart) ==
    {[freq |-> f, count |-> c, until |-> Null] :
        f \in {"DAILY", "WEEKLY"},
        c \in {Null} \cup {Some(n) : n \in (1..MaxCount) \cup {maxOccurrences + 1}}}
    \cup
    {[freq |-> f, count |-> Null, until |-> Some(EndOfDay(dtstart, n))] :
        f \in {"DAILY", "WEEKLY"}, n \in 1..MaxCount}

\* EXDATE: none, one of the first instances, two of them, or an instant
\* the series does not contain
Exdates(dtstart, rrule) ==
    LET c(k) == dtstart.t + k * Period(rrule)
    IN  {{}} \cup {{c(k)} : k \in 0..2} \cup {{c(1), c(2)}} \cup {{c(0) + 30}}

Vevents ==
    UNION {
        {[uid |-> u, dtstart |-> s, duration |-> DurationOf(s),
          rrule |-> Null, exdates |-> {}, recurrenceId |-> Null] : u \in UIDs}
        \cup
        UNION {{[uid |-> u, dtstart |-> s, duration |-> DurationOf(s),
                 rrule |-> Some(r), exdates |-> x, recurrenceId |-> Null] :
                    u \in UIDs, x \in Exdates(s, r)} : r \in Rules(s)}
        : s \in StartTimes}

\* The server's zone (Date.getTimezoneOffset) and DEFAULT_TIMEZONE.  No
\* VEVENT of this specification carries a RECURRENCE-ID, so whether the
\* library relates exceptions makes no difference here.
Envs ==
    [DEFAULT_TIMEZONE : {Null, Some("Europe/Berlin")},
     serverOffsetMinutes : {0, 300, 360},
     relatesExceptions : {TRUE}]

MaterializeArgs ==
    {[icsData |-> d, calendarId |-> "c1", timeMin |-> Null, timeMax |-> Null, env |-> e] :
        d \in {[parsable |-> FALSE, vevents |-> <<>>], [parsable |-> TRUE, vevents |-> <<>>]}
              \cup {[parsable |-> TRUE, vevents |-> <<v>>] : v \in Vevents},
        e \in Envs}

InitMaterialize ==
    /\ now = 1
    /\ sources = [s \in Sources |-> SourceRow(TRUE)]
    /\ calendars = [c \in CalIds |-> "enabled"]
    /\ events = {}
    /\ md = {}
    /\ inflight = EmptyBag
    /\ cycle = NoCycle
    /\ rets = NoRets
    /\ allRet = NoAllRet
    /\ last = NoLast
    /\ synced = NoSynced
    /\ call \in {[fn |-> "parseICSData", args |-> a, out |-> <<>>] : a \in MaterializeArgs}
    /\ syncInterval = Null
    /\ timers = {}
    /\ InitClient

Materialize(a) ==
    parseICSData(a.icsData, a.calendarId, a.timeMin, a.timeMax, a.env)

\* The call returns or throws
ParseICS ==
    /\ call.fn = "parseICSData"
    /\ call.out = <<>>
    /\ call' = [call EXCEPT !.out = <<Materialize(call.args)>>]
    /\ UNCHANGED <<now, sources, calendars, events, md, inflight, cycle, rets, allRet, last, synced,
                 syncInterval, timers, clientVars>>

NextMaterialize == ParseICS

SpecMaterialize == InitMaterialize /\ [][NextMaterialize]_vars

\* ---------------------------------------------------------------------
\* The materializer's results
\* ---------------------------------------------------------------------
ParseDone == call.fn = "parseICSData" /\ call.out # <<>>
ParseOut == call.out[1]
\* The one VEVENT of the call
TheVevent == call.args.icsData.vevents[1]
OneVevent == ParseDone /\ Len(call.args.icsData.vevents) = 1
Recurring == OneVevent /\ isRecurring(TheVevent)
TheRule == Val(TheVevent.rrule)
\* The loop's variables when the expansion of the VEVENT ends
LoopEnd ==
    Expand(ICALEvent(TheVevent, call.args.icsData.vevents, call.args.env),
           call.args.calendarId, call.args.timeMin, call.args.timeMax, call.args.env)
\* The candidates the loop counted, and whether it was left
Considered == LoopEnd.occurrenceCount
LoopLeft == LoopEnd.done

CandidateOf(e) == e.id[3] \div 60
\* Consecutive occurrences are one period of the rule apart
OnePerPeriod ==
    \A i \in 1..(Len(ParseOut.events) - 1) :
        /\ CandidateOf(ParseOut.events[i + 1]) - CandidateOf(ParseOut.events[i]) = Period(TheRule)
        /\ Val(ParseOut.events[i + 1].start) - Val(ParseOut.events[i].start) = Period(TheRule)
\* The days the series covers when UNTIL is the end of its n-th day
UntilDay == DayOf(Val(TheRule.until)) - DayOf(TheVevent.dtstart.t) + 1
\* A series without exclusions, bounded by COUNT or by UNTIL
Bounded == Recurring /\ TheVevent.exdates = {} /\ (TheRule.count # Null \/ TheRule.until # Null)

Instances(n) == {TheVevent.dtstart.t + k * Period(TheRule) : k \in 0..(n - 1)}
\* The candidate instants of the emitted occurrences
Emitted == {CandidateOf(ParseOut.events[i]) : i \in 1..Len(ParseOut.events)}

DateIn(instant, offset) == DayOf(instant + offset)
\* Zone offsets in quarter hours, from UTC-12 to UTC+14 and to UTC+11:45
ZoneOffsets == {15 * q : q \in (0 - 48)..56}
ZoneOffsetsBelow12 == {15 * q : q \in (0 - 48)..47}
\* The call materialized one all-day event (or all-day series)
AllDay == OneVevent /\ TheVevent.dtstart.isDate /\ Len(ParseOut.events) >= 1
\* The date of the i-th occurrence of the all-day event
DateOfOccurrence(i) ==
    IF isRecurring(TheVevent)
    THEN DayOf(CandidateOf(ParseOut.events[i]))
    ELSE DayOf(TheVevent.dtstart.t)

UtcOffsetMinutes(zone, day) ==
    IF zone = "America/Chicago" THEN (IF day \in 67..304 THEN 300 ELSE 360)
    ELSE IF zone = "Europe/Berlin" THEN (IF day \in 88..297 THEN 0 - 120 ELSE 0 - 60)
    ELSE 0
\* The call materialized one event with a floating time of day
Floating ==
    /\ OneVevent
    /\ ~TheVevent.dtstart.isDate /\ TheVevent.dtstart.zone = "floating"
    /\ Len(ParseOut.events) >= 1

\* C25: a floating time is the wall-clock time of the configured default
\* zone: the stored instant is the reading plus that zone's offset from UTC
\* on that date.
C25_FloatingTimeInDefaultZone ==
    (Floating /\ ~isRecurring(TheVevent)) =>
        /\ ParseOut.events[1].timezone = Some(defaultTimezone(call.args.env))
        /\ ParseOut.events[1].start =
              Some(TheVevent.dtstart.t
                   + UtcOffsetMinutes(defaultTimezone(call.args.env), DayOf(TheVevent.dtstart.t)))

\* C25, the case the code is written for: America/Chicago on standard time
C25_FloatingTimeChicagoWinter ==
    (Floating /\ ~isRecurring(TheVevent)
        /\ call.args.env.DEFAULT_TIMEZONE = Null /\ DayOf(TheVevent.dtstart.t) = 305) =>
        ParseOut.events[1].start = Some(305 * MinutesPerDay + 15 * 60 + 30)

\* The ids of the call's occurrences, in order
Ids(out) == [i \in 1..Len(out.events) |-> out.events[i].id]
\* Another server zone and the other default zone: following it from any
\* environment leads through them all
NextEnv(e) ==
    [DEFAULT_TIMEZONE |-> IF e.DEFAULT_TIMEZONE = Null THEN Some("Europe/Berlin") ELSE Null,
     serverOffsetMinutes |-> IF e.serverOffsetMinutes = 0 THEN 300
                             ELSE IF e.serverOffsetMinutes = 300 THEN 360 ELSE 0,
     relatesExceptions |-> e.relatesExceptions]
\* The same calendar data materialized on another server, under another
\* default zone and for another calendar
SameInputElsewhere ==
    Materialize([call.args EXCEPT !.env = NextEnv(@), !.calendarId = "c2"])

\* C26: a non-recurring event's id is its UID, a recurring occurrence's id
\* is UID, '_' and the epoch seconds of its candidate start; the ids depend
\* on the calendar data alone, and no two occurrences of one recurring
\* event share an id.
C26_IdsAreDeterministic ==
    OneVevent =>
        /\ ~isRecurring(TheVevent) => Ids(ParseOut) = <<(<<TheVevent.uid>>)>>
        /\ isRecurring(TheVevent) =>
              /\ \A i \in 1..Len(ParseOut.events) :
                    /\ Len(ParseOut.events[i].id) = 3
                    /\ ParseOut.events[i].id[1] = TheVevent.uid
                    /\ ParseOut.events[i].id[2] = "_"
              /\ Len(ParseOut.events) >= 1 =>
                    ParseOut.events[1].id[3] =
                        60 * (CHOOSE t \in Instances(4) \ TheVevent.exdates :
                                    \A u \in Instances(4) \ TheVevent.exdates : t <= u)
              /\ \A i \in 1..(Len(ParseOut.events) - 1) :
                    ParseOut.events[i + 1].id[3] > ParseOut.events[i].id[3]
              /\ Cardinality({ParseOut.events[i].id : i \in 1..Len(ParseOut.events)})
                    = Len(ParseOut.events)
        /\ Ids(SameInputElsewhere) = Ids(ParseOut)

C26_Witness ==
    /\ Recurring
    /\ Len(ParseOut.events) = 500
    /\ ParseOut.events[1].id = <<TheVevent.uid, "_", 60 * TheVevent.dtstart.t>>
    /\ ParseOut.events[2].id = <<TheVevent.uid, "_", 60 * (TheVevent.dtstart.t + Period(TheRule))>>

\* ---------------------------------------------------------------------
\* services/sync.service.js: the timeouts of the network calls of
\* fetchEventsFromSource. Source s1 is an ICS feed, s2 a CalDAV account.
\* ---------------------------------------------------------------------
SourceTypeOf(s) == IF s = "s1" THEN "ics" ELSE "caldav"

BACKGROUND_SYNC_TIMEOUT == 45 * 1000

\* The timeout the network calls of a task are made with: the feed GET
\* passes timeout: BACKGROUND_SYNC_TIMEOUT; createDAVClient, fetchCalendars
\* and fetchCalendarObjects are called with none
FetchTimeout(task) ==
    IF SourceTypeOf(task.src) = "ics" THEN Some(BACKGROUND_SYNC_TIMEOUT) ELSE Null

\* The timeout of a task's network call expires: the call rejects, which
\* is a failed fetch
FetchTimedOut(task) ==
    /\ FetchTimeout(task) # Null
    /\ FetchFailed(task)

\* Manual syncs of both sources against remotes that answer, fail, or
\* never answer; a timer that was set does expire
NextHang ==
    \/ \E s \in Sources : TriggerSource(s)
    \/ \E task \in BagToSet(inflight) : \E f \in CrossFetches(task.cals) : FetchSucceeded(task, f)
    \/ \E task \in BagToSet(inflight) : FetchFailed(task)
    \/ \E task \in BagToSet(inflight) : FetchTimedOut(task)

SpecHang ==
    /\ Init
    /\ [][NextHang]_vars
    /\ \A s \in Sources :
          WF_vars(\E task \in BagToSet(inflight) : task.src = s /\ FetchTimedOut(task))

\* A syncSource call of the source is suspended at its fetch
Fetching(s) == TasksOf(inflight, s) # {}
\* A syncSource call of the source returned in the last step
JustReturned(s) == rets[s].kind # "none"

\* C27: every started syncSource eventually returns, because each of its
\* network fetches is bounded by a timeout whose expiry is a fetch failure.
C27_SyncSourceReturns ==
    \A s \in Sources : Fetching(s) ~> JustReturned(s)

\* C27 for the ICS feed alone, whose GET carries a timeout
C27_IcsSyncSourceReturns ==
    Fetching("s1") ~> (JustReturned("s1") /\ (rets["s1"].kind = "error" => Retries("s1") >= 1))

\* ---------------------------------------------------------------------
\* services/sync.service.js: startBackgroundSync / stopBackgroundSync.
\* A live interval timer is [id, due]: it fires when the clock reaches due
\* and is then due one interval later.
\* ---------------------------------------------------------------------
MaxTimers == 2
SYNC_INTERVAL == 5

RECURSIVE SyncAll(_, _)
\* syncAllSources() called by the scheduler, which drops its result: the
\* syncSource calls up to their fetches
SyncAll(st, srcs) ==
    IF srcs = <<>> THEN st
    ELSE SyncAll(SyncSourceStart(st, Head(srcs), FALSE, calendars, now), Tail(srcs))

\* syncAllSources().catch(...) from the scheduler
BackgroundCycle ==
    /\ Cardinality({s \in Sources : InCycle(s) /\ WouldFetch(s)}) <= Room(inflight)
    /\ LET st == SyncAll(Cur, getAllSources) IN
        /\ events' = st.events
        /\ md' = st.md
        /\ inflight' = st.inflight
        /\ rets' = st.rets
    /\ allRet' = NoAllRet
    /\ last' = NoLast
    /\ synced' = NoSynced
    /\ UNCHANGED <<now, sources, calendars, cycle, call, clientVars>>

\* A step of the scheduler that starts no sync
SchedIdle ==
    /\ rets' = NoRets
    /\ allRet' = NoAllRet
    /\ last' = NoLast
    /\ UNCHANGED <<now, sources, calendars, events, md, inflight, cycle, synced, call, clientVars>>

\* The guard is missing: every call sets a timer
AlreadyRunning_Never == FALSE

\* if (syncInterval)
AlreadyRunning == syncInterval # Null

\* setInterval: the id of the new timer
NewTimer == CHOOSE id \in 1..MaxTimers : \A t \in timers : t.id # id

startBackgroundSync ==
    IF AlreadyRunning
    THEN /\ SchedIdle
         /\ UNCHANGED <<syncInterval, timers, clientVars>>
    ELSE /\ Cardinality(timers) < MaxTimers
         /\ BackgroundCycle
         /\ timers' = timers \cup {[id |-> NewTimer, due |-> now + SYNC_INTERVAL]}
         /\ syncInterval' = Some(NewTimer)

stopBackgroundSync ==
    /\ SchedIdle
    /\ IF syncInterval # Null
       THEN /\ timers' = {t \in timers : t.id # Val(syncInterval)}
            /\ syncInterval' = Null
       ELSE UNCHANGED <<syncInterval, timers, clientVars>>

\* The interval of a live timer elapsed: its callback runs
IntervalFires(timer) ==
    /\ timer \in timers
    /\ timer.due = now
    /\ BackgroundCycle
    /\ timers' = (timers \ {timer}) \cup {[timer EXCEPT !.due = now + SYNC_INTERVAL]}
    /\ UNCHANGED syncInterval

\* Time passes, not beyond the point where a timer is due
TickTimers(d) ==
    /\ \A t \in timers : now + d <= t.due
    /\ Tick(d)

\* One ICS source with one calendar
InitSched ==
    /\ now = 1
    /\ sources = [s \in Sources |-> IF s = "s1" THEN SourceRow(TRUE) ELSE NoSource]
    /\ calendars = [c \in CalIds |-> IF c = "c1" THEN "enabled" ELSE "absent"]
    /\ events = {}
    /\ md = {}
    /\ inflight = EmptyBag
    /\ cycle = NoCycle
    /\ rets = NoRets
    /\ allRet = NoAllRet
    /\ last = NoLast
    /\ synced = NoSynced
    /\ call = NoCall
    /\ syncInterval = Null
    /\ timers = {}
    /\ InitClient

NextSched ==
    \/ startBackgroundSync
    \/ stopBackgroundSync
    \/ \E timer \in timers : IntervalFires(timer)
    \/ \E d \in TickSteps : TickTimers(d)
    \/ TriggerSource("s1")
    \/ \E task \in BagToSet(inflight) : \E f \in RetryFetches : FetchSucceeded(task, f)
    \/ \E task \in BagToSet(inflight) : FetchFailed(task)

SpecSched == InitSched /\ [][NextSched]_vars

\* The syncSource calls of a source suspended at their fetch
FetchesOf(tasks, s) == BagCardinality([task \in TasksOf(tasks, s) |-> CopiesIn(task, tasks)])
\* The step made exactly one syncSource call for every active source
TriggeredOnce ==
    \A s \in Sources : IsActive(s) =>
        \/ rets'[s].kind # "none" /\ FetchesOf(inflight', s) = FetchesOf(inflight, s)
        \/ rets'[s].kind = "none" /\ FetchesOf(inflight', s) = FetchesOf(inflight, s) + 1
\* The step made no syncSource call
NotTriggered == inflight' = inflight /\ rets' = NoRets

\* C28: startBackgroundSync runs one syncAllSources at once and sets one
\* timer that runs one more each 5 minutes; called while running it sets no
\* timer and runs no sync; after stopBackgroundSync no timer is live until
\* the next start.
C28_SingleTimer ==
    [][/\ (startBackgroundSync /\ syncInterval = Null) =>
              /\ TriggeredOnce
              /\ syncInterval' # Null
              /\ timers' = {[id |-> Val(syncInterval'), due |-> now + 5]}
       /\ (startBackgroundSync /\ syncInterval # Null) =>
              /\ NotTriggered
              /\ UNCHANGED <<syncInterval, timers, clientVars>>
       /\ \A timer \in timers : IntervalFires(timer) =>
              /\ TriggeredOnce
              /\ timers' = {[id |-> Val(syncInterval), due |-> now + 5]}
       /\ stopBackgroundSync => (NotTriggered /\ syncInterval' = Null /\ timers' = {})
       /\ Cardinality(timers') <= 1
       /\ (syncInterval' = Null) = (timers' = {})
      ]_vars

C28_Witness ==
    /\ syncInterval # Null
    /\ now = 11
    /\ timers = {[id |-> Val(syncInterval), due |-> 16]}
    /\ FetchesOf(inflight, "s1") = 2

\* The source's last attempt failed and its nextRetryTime is ahead
CoolingDown(s) ==
    \E r \in MetaRows(s) :
        /\ r.lastSyncStatus = "error"
        /\ r.retryCount >= 1
        /\ r.nextRetryTime # Null
        /\ now < Val(r.nextRetryTime)

\* C29: while the nextRetryTime of a source whose last attempt failed is
\* ahead, a syncSource call for it starts no fetch, whatever its
\* retryCount (1 and 2 included).
C29_NoFetchDuringCooldown ==
    [][\A s \in Sources : (TriggerSource(s) /\ CoolingDown(s)) => ~Started(s)]_vars

\* C29 for the sync cycles of the scheduler
C29_NoCycleFetchDuringCooldown ==
    [][\A s \in Sources :
          ((startBackgroundSync \/ \E timer \in timers : IntervalFires(timer)) /\ CoolingDown(s))
              => ~Started(s)]_vars

\* The scheduler running for good against a remote that answers every
\* fetch sooner or later: timers expire, time passes, fetches return
NextSchedLive ==
    \/ startBackgroundSync
    \/ \E timer \in timers : IntervalFires(timer)
    \/ \E d \in TickSteps : TickTimers(d)
    \/ TriggerSource("s1")
    \/ \E task \in BagToSet(inflight) : \E f \in RetryFetches : FetchSucceeded(task, f)
    \/ \E task \in BagToSet(inflight) : FetchFailed(task)

SpecSchedLive ==
    /\ InitSched
    /\ [][NextSchedLive]_vars
    /\ WF_vars(\E timer \in timers : IntervalFires(timer))
    /\ WF_vars(\E d \in TickSteps : TickTimers(d))
    /\ WF_vars(\E task \in BagToSet(inflight) :
                  \/ \E f \in RetryFetches : FetchSucceeded(task, f)
                  \/ FetchFailed(task))

\* The source reached the retry limit, and the scheduler's timer expires
\* at or after its nextRetryTime before the clock of the model ends
GatedUnderScheduler(s) ==
    /\ syncInterval # Null
    /\ \E r \in MetaRows(s) :
          /\ r.retryCount >= 3
          /\ r.nextRetryTime # Null
          /\ \E timer \in timers : \E k \in 0..MaxTime :
                /\ timer.due + k * SYNC_INTERVAL >= Val(r.nextRetryTime)
                /\ timer.due + k * SYNC_INTERVAL <= MaxTime
\* The source's metadata says success with retryCount 0
SyncedClean(s) ==
    \E r \in MetaRows(s) :
        r.lastSyncStatus = "success" /\ r.retryCount = 0 /\ r.nextRetryTime = Null
\* The source is at the retry limit and its nextRetryTime has come
CooldownOver(s) ==
    /\ IsActive(s)
    /\ getEnabledCalendarsBySource(calendars, s) # {}
    /\ \E r \in MetaRows(s) :
          r.retryCount >= 3 /\ r.nextRetryTime # Null /\ now >= Val(r.nextRetryTime)

\* C30: a source gated at retryCount >= 3 reopens by itself: a syncSource
\* call made once nextRetryTime has come starts a fetch with no reset
\* before it; a failure of an attempt at retryCount >= 3 sets the cooldown
\* to 15 minutes; and under the running scheduler the source ends up synced
\* with retryCount 0 unless a fetch fails again.
C30_GateReopensByItself ==
    /\ [][\A s \in Sources :
            /\ (CooldownOver(s) /\ (TriggerSource(s) \/ \E timer \in timers : IntervalFires(timer)))
                  => Started(s)
            /\ (FailedAttempt(s) /\ Retries(s) >= 3) =>
                  \E r \in MetaRows(s)' :
                      r.retryCount = Retries(s) + 1 /\ r.nextRetryTime = Some(now + 15)
            /\ (rets'[s].kind = "success" /\ Retries(s) >= 3) => SyncedClean(s)'
         ]_vars
    /\ \A s \in Sources :
          \A n \in 3..MaxRetryCount :
              (GatedUnderScheduler(s) /\ Retries(s) = n)
                  ~> (SyncedClean(s) \/ Retries(s) > n)

\* The source is gated since the third failure of minute 1, the timer of
\* minute 16 and a request have each started a fetch
C30_Witness ==
    /\ syncInterval # Null
    /\ CooldownOver("s1")
    /\ Retries("s1") = 3
    /\ Cardinality(TasksOf(inflight, "s1")) >= 1
    /\ BagCardinality(inflight) = 2

\* ---------------------------------------------------------------------
\* services/sync.service.js: syncSource of a CalDAV source, the fetch run
\* through fetchEventsFromSource.  In this specification the source s1 is
\* a CalDAV account with the calendars c1 and c2.
\* ---------------------------------------------------------------------
CalDAVSource == "s1"
\* getEnabledCalendarsBySource returns the rows in table order
CalendarOrder == <<"c1", "c2", "c3">>
EnabledSeq(cals) == SelectSeq(CalendarOrder, LAMBDA c : c \in cals)
\* What the CalDAV server does during one fetch of the calendars cals; a
\* collection that answers holds no object or one that parses
SyncAnswers == {Answer("unmatched", <<>>), Answer("throws", <<>>),
                Answer("objects", <<>>), Answer("objects", <<"good">>)}
CalDAVRemotes(cals) ==
    [connect : {"ok"}, list : {"ok", "fail", "empty"}, answers : [cals -> SyncAnswers]]
        \cup [connect : {"fail"}, list : {"ok"},
              answers : [cals -> {Answer("unmatched", <<>>)}]]

\* The await of fetchEventsFromSource in syncSource returns or throws for
\* a CalDAV source, and syncSource runs to its end
CalDAVFetchReturns(task, remote) ==
    /\ BagIn(task, inflight)
    /\ remote \in CalDAVRemotes(task.cals)
    /\ LET out == fetchEventsFromSource(
                      [sourceType |-> "caldav", enabledCalendars |-> EnabledSeq(task.cals),
                       connect |-> remote.connect, list |-> remote.list,
                       answers |-> remote.answers])
           st == IF out.threw THEN SyncFailed(Cur, task.src, now)
                 ELSE ReplaceEvents(Cur, task.src, out.events, calendars, now)
       IN /\ st.rets[task.src].kind = "error" => RetryCountOf(md, task.src) < MaxRetryCount
          /\ Finish(task, st)

NextCalDAV ==
    \/ TriggerSource(CalDAVSource)
    \/ \E task \in BagToSet(inflight) : \E remote \in CalDAVRemotes(task.cals) :
          CalDAVFetchReturns(task, remote)
    \/ \E d \in TickSteps : Tick(d)

SpecCalDAV == Init /\ [][NextCalDAV]_vars

\* The object fetch of calendar c failed: fetchCalendarObjects threw, or
\* the server listed no calendars at all
ObjectFetchFailed(remote, c) ==
    /\ remote.connect = "ok"
    /\ \/ remote.list = "empty"
       \/ remote.list = "ok" /\ remote.answers[c].kind = "throws"
RowsOfCalendar(rows, c) == Materialized({r \in rows : r.calendarId = c})

\* C31: when the object fetch of an enabled calendar of a CalDAV source fails
\* during a sync (one calendar, every calendar, or the server listing no
\* calendars), the rows cached for that calendar are still cached after the
\* sync.
C31_FailedCalendarKeepsItsRows ==
    [][\A task \in BagToSet(inflight) : \A remote \in CalDAVRemotes(task.cals) :
          CalDAVFetchReturns(task, remote) =>
              \A c \in task.cals :
                  ObjectFetchFailed(remote, c) =>
                      RowsOfCalendar(events, c) \subseteq RowsOfCalendar(events', c)
      ]_vars

\* A fetch that throws as a whole (connecting or listing fails) keeps every
\* row of the source
C31_FailedFetchKeepsRows ==
    [][\A task \in BagToSet(inflight) : \A remote \in CalDAVRemotes(task.cals) :
          (CalDAVFetchReturns(task, remote)
              /\ (remote.connect = "fail" \/ remote.list = "fail"))
              => events' = events
      ]_vars

\* ---------------------------------------------------------------------
\* The materializer on a recurring event with one modified instance: a
\* calendar object with the master VEVENT and, before or after it, the
\* VEVENT of the same UID that carries the instance's RECURRENCE-ID.
\* ---------------------------------------------------------------------
\* The first instances of the series, one of which is modified
OverriddenInstances == 0..2
\* The master: daily or weekly, MaxCount instances, no EXDATE
Masters ==
    {[uid |-> "u1", dtstart |-> s, duration |-> DurationOf(s),
      rrule |-> Some([freq |-> f, count |-> Some(MaxCount), until |-> Null]),
      exdates |-> {}, recurrenceId |-> Null] :
        s \in StartTimes, f \in {"DAILY", "WEEKLY"}}
\* The override of instance k: moved by a day (a date) or by 90 minutes (a
\* time), and half as long again
OverrideOf(master, k) ==
    LET recurrenceId == Candidate(master, master.dtstart.t, k)
        moved == recurrenceId + (IF master.dtstart.isDate THEN MinutesPerDay ELSE 90)
    IN  [uid |-> master.uid,
         dtstart |-> IcalTime(master.dtstart.isDate, master.dtstart.zone, moved),
         duration |-> master.duration + master.duration \div 2,
         rrule |-> Null, exdates |-> {}, recurrenceId |-> Some(recurrenceId)]
OverrideEnvs ==
    [DEFAULT_TIMEZONE : {Null, Some("Europe/Berlin")},
     serverOffsetMinutes : {0, 300, 360},
     relatesExceptions : BOOLEAN]
OverrideArgs ==
    {[icsData |-> [parsable |-> TRUE, vevents |-> v], calendarId |-> "c1",
      timeMin |-> Null, timeMax |-> Null, env |-> e] :
        v \in UNION {{<<m, OverrideOf(m, k)>>, <<OverrideOf(m, k), m>>} :
                        m \in Masters, k \in OverriddenInstances},
        e \in OverrideEnvs}

InitOverride ==
    /\ now = 1
    /\ sources = [s \in Sources |-> SourceRow(TRUE)]
    /\ calendars = [c \in CalIds |-> "enabled"]
    /\ events = {}
    /\ md = {}
    /\ inflight = EmptyBag
    /\ cycle = NoCycle
    /\ rets = NoRets
    /\ allRet = NoAllRet
    /\ last = NoLast
    /\ synced = NoSynced
    /\ call \in {[fn |-> "parseICSData", args |-> a, out |-> <<>>] : a \in OverrideArgs}
    /\ syncInterval = Null
    /\ timers = {}
    /\ InitClient

SpecOverride == InitOverride /\ [][NextMaterialize]_vars

\* The override VEVENT of the call and the master it belongs to
TheOverride == CHOOSE v \in Range(call.args.icsData.vevents) : v.recurrenceId # Null
TheMaster == CHOOSE v \in Range(call.args.icsData.vevents) : v.recurrenceId = Null
\* The events emitted for the modified instance: the series occurrence of
\* its RECURRENCE-ID and the stand-alone event of the override's UID
ForTheInstance ==
    {i \in 1..Len(ParseOut.events) :
        \/ ParseOut.events[i].id = OccurrenceId(TheMaster.uid,
                [isDate |-> TheMaster.dtstart.isDate, zone |-> TheMaster.dtstart.zone,
                 t |-> Val(TheOverride.recurrenceId)])
        \/ ParseOut.events[i].id = <<TheOverride.uid>>}
CarriesTheOverride(e) ==
    LET startTz == extractTimezone(Some(TheOverride.dtstart), call.args.env) IN
    /\ e.start = icalTimeToDate(Some(TheOverride.dtstart), startTz, call.args.env)
    /\ e.end = icalTimeToDate(Some(EndDate(TheOverride)), startTz, call.args.env)

\* C32: for a recurring event with a modified instance the materializer
\* emits exactly one event for that instance, and it carries the override's
\* start and end.
C32_OverrideEmittedOnce ==
    (ParseDone /\ call.args \in OverrideArgs)
        => /\ Cardinality(ForTheInstance) = 1
           /\ \A i \in ForTheInstance : CarriesTheOverride(ParseOut.events[i])

\* What the code does: the override is emitted as a stand-alone event whose
\* id is the bare UID, next to the series occurrence of the same instance
C32_OverrideEmittedTwice ==
    (ParseDone /\ call.args \in OverrideArgs)
        => /\ Cardinality(ForTheInstance) = 2
           /\ \E i \in ForTheInstance :
                 /\ ParseOut.events[i].id = <<TheOverride.uid>>
                 /\ ~ParseOut.events[i].isRecurring
                 /\ CarriesTheOverride(ParseOut.events[i])
           /\ \E i \in ForTheInstance :
                 /\ ParseOut.events[i].isRecurring
                 /\ CarriesTheOverride(ParseOut.events[i]) <=> call.args.env.relatesExceptions
           /\ Len(ParseOut.events) = MaxCount + 1

\* The three conditions on a row of sync_metadata, for the values
\* lastSyncStatus may take
MetadataConsistent(r, statuses) ==
    /\ r.lastSyncStatus \in statuses
    /\ r.retryCount = 0 => r.nextRetryTime = Null
    /\ r.lastSyncStatus = "success" => (r.retryCount = 0 /\ r.lastError = "null")

\* C33: in every reachable state of a source's metadata lastSyncStatus is
\* one of success, error, never; retryCount = 0 implies nextRetryTime is
\* null; lastSyncStatus = success implies retryCount = 0 and no lastError.
C33_MetadataInvariants ==
    \A r \in md : MetadataConsistent(r, {"success", "error", "never"})

\* C33 as the code has it: the status of a source no sync has returned for
\* is NULL, in the row a manual reset creates, and never the word never
C33_MetadataInvariantsNullStatus ==
    \A r \in md :
        /\ MetadataConsistent(r, {"success", "error", "null"})
        /\ r.lastSyncStatus = "null" =>
              (r.lastSyncTime = Null /\ r.retryCount = 0 /\ r.lastError = "null")

\* A success, later a failure, later a manual reset
C33_Witness ==
    \E r \in md :
        /\ r.lastSyncStatus = "error"
        /\ r.lastSyncTime # Null
        /\ r.retryCount = 0
        /\ r.lastError = "null"

\* C34: the count a successful syncSource returns is the number of rows
\* cached for the source right after it, also when the fetch held an id
\* twice or an event without start or end.
C34_CountIsCachedRows ==
    [][\A s \in Sources :
          rets'[s].kind = "success" =>
              rets'[s].count = Cardinality(EventsOf(events', s))
      ]_vars

\* The count is the length of the fetched list; it is the number of cached
\* rows when every fetched event has start and end and no id comes twice
C34_CountIsFetchedLength ==
    [][\A s \in Sources :
          rets'[s].kind = "success" =>
              LET fetched == rets'[s].fetched IN
              /\ rets'[s].count = Len(fetched)
              /\ ((\A i \in 1..Len(fetched) : fetched[i].valid)
                    /\ (\A i, j \in 1..Len(fetched) : fetched[i].id = fetched[j].id => i = j))
                    => rets'[s].count = Cardinality(EventsOf(events', s))
      ]_vars

\* ---------------------------------------------------------------------
\* src/services (browser): the client sync service, syncSource over the
\* IndexedDB stores events and syncMetadata.  Times are in seconds.
\* ---------------------------------------------------------------------
MaxClock == 1200
MaxOps == 2
LOCK_TIMEOUT == 30
CLIENT_MAX_RETRIES == 3
RETRY_DELAYS == <<1 * 60, 5 * 60, 15 * 60>>
ClockSteps == {5 * 60, 15 * 60}
\* What a fetch of the source can return, as the ids of its events: two
\* events, or the first of them alone
ClientFetches == {{"e1", "e2"}, {"e1"}}
FetchTimeoutMessage == "Fetch timeout"

\* shouldRetry(metadata)
shouldRetry(metadata, t) ==
    IF metadata = Null THEN TRUE
    ELSE IF Val(metadata).lastSyncSuccess THEN FALSE
    ELSE IF Val(metadata).retryCount >= Val(metadata).maxRetries THEN FALSE
    ELSE IF Val(metadata).nextRetryTime # Null THEN t >= Val(Val(metadata).nextRetryTime)
    ELSE TRUE

\* RETRY_DELAYS[Math.min(retryCount, RETRY_DELAYS.length - 1)], 0-based
calculateNextRetryTime(retryCount, t) ==
    t + RETRY_DELAYS[Min(retryCount, Len(RETRY_DELAYS) - 1) + 1]

\* The metadata syncSource writes after a successful fetch (lastSyncTime,
\* eventCount, syncToken and isFullSyncCompleted are written and never read
\* by the sync service: they are left out)
SuccessMetadata(sourceId, fetched, t) ==
    [sourceId |-> sourceId, lastSyncSuccess |-> TRUE, errorMessage |-> Null,
     retryCount |-> 0, maxRetries |-> CLIENT_MAX_RETRIES, nextRetryTime |-> Null]

\* The metadata the catch block of syncSource writes
ErrorMetadata(sourceId, existingMetadata, errorMessage, t) ==
    LET currentRetryCount == IF existingMetadata = Null THEN 0
                             ELSE Val(existingMetadata).retryCount
        newRetryCount == currentRetryCount + 1
    IN  [sourceId |-> sourceId, lastSyncSuccess |-> FALSE,
         errorMessage |-> Some(errorMessage),
         retryCount |-> newRetryCount, maxRetries |-> CLIENT_MAX_RETRIES,
         nextRetryTime |-> IF newRetryCount < CLIENT_MAX_RETRIES
                           THEN Some(calculateNextRetryTime(newRetryCount, t))
                           ELSE Null]

\* indexedDB.saveEvents: store.put of every event, keyed by id; nothing is
\* deleted
indexedDB_saveEvents(store, fetched, sourceId) ==
    {e \in store : e.id \notin fetched}
        \cup {[id |-> id, sourceId |-> sourceId] : id \in fetched}

\* indexedDB.loadEventsBySource
loadEventsBySource(store, sourceId) == {e \in store : e.sourceId = sourceId}
\* loadFromCache: indexedDB.loadEvents
loadFromCache == idbEvents

\* Whether the lock of the source is held and younger than LOCK_TIMEOUT
LockHeld(sourceId) ==
    /\ syncLocks[sourceId] # Null
    /\ clock - Val(syncLocks[sourceId]).timestamp < LOCK_TIMEOUT

NewOpId == CHOOSE n \in 1..(MaxOps + 1) : \A op \in syncOps : op.id # n

\* syncSource ends with acquireSyncLock(source.id, syncOperation()): the
\* argument is evaluated first, so the operation is started on every call
StartsOperation(sourceId) == TRUE

\* syncSource(source, ...): syncOperation() runs to its first await, then
\* acquireSyncLock returns the promise of the lock held, or makes this
\* operation's promise the lock and hooks its finally to the lock's removal
syncSource(sourceId) ==
    /\ Cardinality(syncOps) < MaxOps
    /\ LET held == LockHeld(sourceId)
           op == [id |-> NewOpId, sourceId |-> sourceId, pc |-> "getSyncMetadata",
                  existingMetadata |-> Null, fetched |-> {}, metadata |-> Null,
                  releases |-> ~held]
       IN /\ syncOps' = IF StartsOperation(sourceId) THEN syncOps \cup {op} ELSE syncOps
          /\ syncLocks' = IF held THEN syncLocks
                          ELSE [syncLocks EXCEPT ![sourceId] =
                                    Some([op |-> op.id, timestamp |-> clock])]
    /\ UNCHANGED <<clock, idbEvents, idbSyncMetadata, ctxState, abortControllerRef, fetchCalls>>
    /\ UNCHANGED serverVars

\* The operation returns: lock.promise.finally(() => syncLocks.delete(id))
\* of the operation whose promise was made a lock
Settle(op) ==
    /\ syncOps' = syncOps \ {op}
    /\ syncLocks' = IF op.releases THEN [syncLocks EXCEPT ![op.sourceId] = Null]
                    ELSE syncLocks

Step(op, next) == syncOps' = (syncOps \ {op}) \cup {next}

\* await indexedDB.getSyncMetadata(source.id) and the retry check
GetSyncMetadata(op) ==
    /\ op \in syncOps /\ op.pc = "getSyncMetadata"
    /\ LET existingMetadata == idbSyncMetadata[op.sourceId] IN
       Step(op, [op EXCEPT !.existingMetadata = existingMetadata,
                           !.pc = IF existingMetadata # Null
                                     /\ ~shouldRetry(existingMetadata, clock)
                                  THEN "skipped" ELSE "fetch"])
    /\ UNCHANGED <<clock, syncLocks, idbEvents, idbSyncMetadata, ctxState,
                   abortControllerRef, fetchCalls>>
    /\ UNCHANGED serverVars

\* The skipped operation returns the cached events with an error
ReturnSkipped(op) ==
    /\ op \in syncOps /\ op.pc = "skipped"
    /\ Settle(op)
    /\ UNCHANGED <<clock, idbEvents, idbSyncMetadata, ctxState, abortControllerRef, fetchCalls>>
    /\ UNCHANGED serverVars

\* fetchWithTimeout resolves with the events fetched
ClientFetchSucceeded(op, fetched) ==
    /\ op \in syncOps /\ op.pc = "fetch"
    /\ Step(op, [op EXCEPT !.fetched = fetched, !.pc = "saveEvents"])
    /\ UNCHANGED <<clock, syncLocks, idbEvents, idbSyncMetadata, ctxState,
                   abortControllerRef, fetchCalls>>
    /\ UNCHANGED serverVars

\* await indexedDB.saveEvents(events, source.id)
SaveEvents(op) ==
    /\ op \in syncOps /\ op.pc = "saveEvents"
    /\ idbEvents' = indexedDB_saveEvents(idbEvents, op.fetched, op.sourceId)
    /\ Step(op, [op EXCEPT !.pc = "saveSyncMetadata",
                           !.metadata = Some(SuccessMetadata(op.sourceId, op.fetched, clock))])
    /\ UNCHANGED <<clock, syncLocks, idbSyncMetadata, ctxState, abortControllerRef, fetchCalls>>
    /\ UNCHANGED serverVars

\* fetchWithTimeout rejects (network error or 'Fetch timeout'): the catch
\* block builds the error metadata
ClientFetchFailed(op) ==
    /\ op \in syncOps /\ op.pc = "fetch"
    /\ Step(op, [op EXCEPT !.pc = "saveSyncMetadata",
                           !.metadata = Some(ErrorMetadata(op.sourceId, op.existingMetadata,
                                                           FetchTimeoutMessage, clock))])
    /\ UNCHANGED <<clock, syncLocks, idbEvents, idbSyncMetadata, ctxState,
                   abortControllerRef, fetchCalls>>
    /\ UNCHANGED serverVars

\* await indexedDB.saveSyncMetadata(metadata), and the return that follows
\* it (after a failure: with the events loaded from the cache)
SaveSyncMetadata(op) ==
    /\ op \in syncOps /\ op.pc = "saveSyncMetadata"
    /\ idbSyncMetadata' = [idbSyncMetadata EXCEPT ![op.sourceId] = op.metadata]
    /\ Settle(op)
    /\ UNCHANGED <<clock, idbEvents, ctxState, abortControllerRef, fetchCalls>>
    /\ UNCHANGED serverVars

\* resetRetryCounter(sourceId)
resetRetryCounter(sourceId) ==
    /\ idbSyncMetadata[sourceId] # Null
    /\ idbSyncMetadata' = [idbSyncMetadata EXCEPT ![sourceId] =
            Some([Val(@) EXCEPT !.retryCount = 0, !.nextRetryTime = Null])]
    /\ UNCHANGED <<clock, syncLocks, idbEvents, syncOps, ctxState, abortControllerRef, fetchCalls>>
    /\ UNCHANGED serverVars

\* setInterval(cleanupStaleLocks, LOCK_TIMEOUT)
cleanupStaleLocks ==
    /\ \E s \in ClientSources :
          syncLocks[s] # Null /\ clock - Val(syncLocks[s]).timestamp > LOCK_TIMEOUT
    /\ syncLocks' = [s \in ClientSources |->
            IF syncLocks[s] # Null /\ clock - Val(syncLocks[s]).timestamp > LOCK_TIMEOUT
            THEN Null ELSE syncLocks[s]]
    /\ UNCHANGED <<clock, idbEvents, idbSyncMetadata, syncOps, ctxState, abortControllerRef,
                   fetchCalls>>
    /\ UNCHANGED serverVars

\* Time passes in the browser
ClientTick(d) ==
    /\ clock + d <= MaxClock
    /\ clock' = clock + d
    /\ UNCHANGED <<syncLocks, idbEvents, idbSyncMetadata, syncOps, ctxState,
                   abortControllerRef, fetchCalls>>
    /\ UNCHANGED serverVars

ClientSource == "s1"

NextClientSync ==
    \/ syncSource(ClientSource)
    \/ \E op \in syncOps : GetSyncMetadata(op)
    \/ \E op \in syncOps : ReturnSkipped(op)
    \/ \E op \in syncOps : \E fetched \in ClientFetches : ClientFetchSucceeded(op, fetched)
    \/ \E op \in syncOps : SaveEvents(op)
    \/ \E op \in syncOps : ClientFetchFailed(op)
    \/ \E op \in syncOps : SaveSyncMetadata(op)
    \/ resetRetryCounter(ClientSource)
    \/ cleanupStaleLocks
    \/ \E d \in ClockSteps : ClientTick(d)

SpecClientSync == Init /\ [][NextClientSync]_vars

\* C35: while the lock of a source is held and younger than 30 s, a second
\* syncSource call for the source starts no second sync operation.
C35_LockedCallStartsNoOperation ==
    [][\A s \in ClientSources :
          (syncSource(s) /\ LockHeld(s)) => syncOps' = syncOps
      ]_vars

\* With the lock held the call leaves the lock as it is; the operation it
\* started runs by the side of the one holding the lock
C35_LockedCallKeepsTheLock ==
    [][\A s \in ClientSources :
          (syncSource(s) /\ LockHeld(s)) =>
              /\ syncLocks' = syncLocks
              /\ \E op \in syncOps' \ syncOps : op.sourceId = s /\ ~op.releases
      ]_vars

\* The operation reads the metadata of a source whose last sync succeeded
ReadsSuccessMetadata(op) ==
    /\ GetSyncMetadata(op)
    /\ idbSyncMetadata[op.sourceId] # Null
    /\ Val(idbSyncMetadata[op.sourceId]).lastSyncSuccess

\* C36: a source whose last sync succeeded keeps being refreshed: the
\* operation of every later syncSource call, made with no other sync in
\* flight, goes on to a new fetch and is not skipped by the retry check.
C36_SuccessKeepsRefreshing ==
    [][\A op \in syncOps :
          (ReadsSuccessMetadata(op) /\ op.releases /\ syncOps = {op})
              => \E next \in syncOps' : next.id = op.id /\ next.pc = "fetch"
      ]_vars

\* What the code does: after a success every operation is skipped
C36_SuccessEndsRefreshing ==
    [][\A op \in syncOps :
          ReadsSuccessMetadata(op) =>
              \E next \in syncOps' : next.id = op.id /\ next.pc = "skipped"
      ]_vars

\* The operation's fetch fails in this step, for the n-th time in a row
NthFailure(op, n) ==
    /\ ClientFetchFailed(op)
    /\ (IF op.existingMetadata = Null THEN 0 ELSE Val(op.existingMetadata).retryCount) = n - 1
\* The metadata the failed operation is about to write
Written(op) == Val((CHOOSE next \in syncOps' : next.id = op.id).metadata)
\* The operation goes on to its fetch in this step
StartsFetch(op) ==
    /\ GetSyncMetadata(op)
    /\ \E next \in syncOps' : next.id = op.id /\ next.pc = "fetch"
ClaimedDelays == <<1 * 60, 5 * 60, 15 * 60>>

\* C37: the first, second and third failure in a row set nextRetryTime to
\* the failure time plus 1, 5 and 15 minutes; no fetch is attempted before
\* nextRetryTime; with retryCount at MAX_RETRIES = 3 no fetch is attempted
\* until resetRetryCounter, after which the next syncSource fetches.
C37_ClientBackoff ==
    [][\A op \in syncOps :
          /\ \A n \in 1..3 :
                NthFailure(op, n) =>
                    /\ Written(op).retryCount = n
                    /\ Written(op).nextRetryTime = Some(clock + ClaimedDelays[n])
          /\ StartsFetch(op) =>
                \/ idbSyncMetadata[op.sourceId] = Null
                \/ LET m == Val(idbSyncMetadata[op.sourceId]) IN
                   /\ m.retryCount < CLIENT_MAX_RETRIES
                   /\ m.nextRetryTime # Null => clock >= Val(m.nextRetryTime)
      ]_vars

\* What the code does: the delays are those of the second and third entry
\* and the third failure sets no nextRetryTime; the gate is as claimed
C37_ClientBackoffShifted ==
    [][\A op \in syncOps :
          /\ NthFailure(op, 1) => Written(op).nextRetryTime = Some(clock + 5 * 60)
          /\ NthFailure(op, 2) => Written(op).nextRetryTime = Some(clock + 15 * 60)
          /\ NthFailure(op, 3) => Written(op).nextRetryTime = Null
          /\ \A n \in 1..3 : NthFailure(op, n) => Written(op).retryCount = n
          /\ StartsFetch(op) =>
                \/ idbSyncMetadata[op.sourceId] = Null
                \/ LET m == Val(idbSyncMetadata[op.sourceId]) IN
                   /\ m.retryCount < CLIENT_MAX_RETRIES
                   /\ m.nextRetryTime # Null => clock >= Val(m.nextRetryTime)
      ]_vars

\* The ids of the events cached for a source
CachedIds(store, sourceId) == {e.id : e \in loadEventsBySource(store, sourceId)}

\* The operation ends a successful sync: its metadata is the success record
EndsSuccessfulSync(op) ==
    /\ SaveSyncMetadata(op)
    /\ Val(op.metadata).lastSyncSuccess

\* C38: after a successful syncSource the events stored in IndexedDB for the
\* source, and the events loadFromCache returns, are exactly the events just
\* fetched: nothing cached by an earlier sync and no longer returned remains.
C38_CacheIsLastFetch ==
    [][\A op \in syncOps :
          EndsSuccessfulSync(op) =>
              /\ CachedIds(idbEvents', op.sourceId) = op.fetched
              /\ {e.id : e \in loadFromCache'} = op.fetched
      ]_vars

\* What saveEvents gives: the events fetched are in the cache after the sync,
\* and no event ever leaves the cache
C38_CacheAccumulates ==
    [][/\ \A op \in syncOps :
             EndsSuccessfulSync(op) => op.fetched \subseteq CachedIds(idbEvents', op.sourceId)
       /\ idbEvents \subseteq idbEvents'
      ]_vars

\* ---------------------------------------------------------------------
\* The browser's CalDAV proxy client (src/services/caldav.service.ts)
\* ---------------------------------------------------------------------

PROXY_MAX_RETRIES == 3
INITIAL_RETRY_DELAY == 1000

\* String.prototype.includes
includes(message, needle) ==
    \E i \in 1..(Len(message) - Len(needle) + 1) :
        SubSeq(message, i, i + Len(needle) - 1) = needle

Pow2(n) == IF n = 0 THEN 1 ELSE IF n = 1 THEN 2 ELSE IF n = 2 THEN 4 ELSE 8

\* What one fetch of the proxy can end with: the fetch rejects (no
\* connection), the 30 s timeout controller aborts it, or a response comes
\* back: with a JSON body that has an error text, a JSON body without one,
\* or a body that is no JSON.  The 500 and 400 texts are those of the
\* proxy's routes (server.js 119-127, 203, 333).
NotJson == [json |-> FALSE, error |-> Null]
JsonBody(error) == [json |-> TRUE, error |-> error]
ProxyResponses ==
    {[kind |-> "response", status |-> 200, body |-> JsonBody(Null)],
     [kind |-> "response", status |-> 400, body |-> JsonBody(Some("Missing required field: url"))],
     [kind |-> "response", status |-> 404, body |-> JsonBody(Null)],
     [kind |-> "response", status |-> 408, body |-> JsonBody(Some("Request timeout"))],
     [kind |-> "response", status |-> 500,
      body |-> JsonBody(Some("Failed to fetch events: Invalid credentials"))],
     [kind |-> "response", status |-> 500,
      body |-> JsonBody(Some("Failed to fetch events: fetch failed"))],
     [kind |-> "response", status |-> 502, body |-> NotJson],
     [kind |-> "response", status |-> 503, body |-> JsonBody(Null)]}
FetchOutcomes ==
    ProxyResponses \cup {[kind |-> "networkError"], [kind |-> "timeout"]}

\* The caller's signal: none passed, passed and never aborted, or aborted
\* while the given attempt's fetch or delay is pending
CallerSignals ==
    {Null, Some([phase |-> "never", attempt |-> 0])}
        \cup {Some([phase |-> p, attempt |-> a]) : p \in {"fetch", "delay"}, a \in 0..1}

\* The error the try block throws for an outcome.  An aborted fetch rejects
\* with the browser's AbortError, whose message names no timeout:
\* timeoutController.abort() is called without a reason.
ThrownError(outcome) ==
    CASE outcome.kind = "networkError" ->
            [name |-> "TypeError", message |-> "Failed to fetch"]
      [] outcome.kind \in {"timeout", "callerAbort"} ->
            [name |-> "AbortError", message |-> "signal is aborted without reason"]
      [] outcome.kind = "response" ->
            LET errorData == IF outcome.body.json THEN outcome.body.error
                             ELSE Some("Unknown error")
            IN [name |-> "Error",
                message |-> IF errorData # Null /\ Val(errorData) # ""
                            THEN Val(errorData)
                            ELSE "HTTP " \o ToString(outcome.status)]

\* isRetryableError(error)
isRetryableError(error) ==
    \/ error.name = "TypeError" \/ includes(error.message, "fetch failed")
    \/ includes(error.message, "timeout")
    \/ includes(error.message, "HTTP 5")

\* signal?.aborted at the given point of the loop
SignalAborted(signal, attempt, phase) ==
    /\ signal # Null
    /\ Val(signal).phase # "never"
    /\ \/ Val(signal).attempt < attempt
       \/ /\ Val(signal).attempt = attempt
          /\ (Val(signal).phase = "fetch" \/ phase = "delay")

ProxyArgs ==
    [responses : [1..(PROXY_MAX_RETRIES + 1) -> FetchOutcomes], signal : CallerSignals]

\* The loop's frame: the attempt, the outcomes of the fetches made and the
\* delays waited
NewFrame == [pc |-> "fetch", attempt |-> 0, made |-> <<>>, delays |-> <<>>]

InitProxy ==
    /\ now = 1
    /\ sources = [s \in Sources |-> SourceRow(TRUE)]
    /\ calendars = [c \in CalIds |-> "enabled"]
    /\ events = {}
    /\ md = {}
    /\ inflight = EmptyBag
    /\ cycle = NoCycle
    /\ rets = NoRets
    /\ allRet = NoAllRet
    /\ last = NoLast
    /\ synced = NoSynced
    /\ call \in {[fn |-> "proxyRequest", args |-> a, out |-> <<>>, frame |-> NewFrame] :
                    a \in ProxyArgs}
    /\ syncInterval = Null
    /\ timers = {}
    /\ InitClient

\* One pass of the loop body up to its return, throw or delay: the fetch
\* settles, an aborted caller signal (before or during the fetch) makes it
\* reject; the catch block throws or goes to the delay
ProxyAttempt ==
    /\ call.fn = "proxyRequest" /\ call.out = <<>> /\ call.frame.pc = "fetch"
    /\ LET f == call.frame
           aborted == SignalAborted(call.args.signal, f.attempt, "fetch")
           sent == ~SignalAborted(call.args.signal, f.attempt - 1, "delay")
           outcome == IF aborted THEN [kind |-> "callerAbort", sent |-> sent]
                      ELSE call.args.responses[f.attempt + 1]
           made == Append(f.made, outcome)
       IN IF outcome.kind = "response" /\ outcome.status \in 200..299
          THEN call' = [call EXCEPT !.out = <<[returns |-> TRUE, message |-> ""]>>,
                                    !.frame = [f EXCEPT !.pc = "done", !.made = made]]
          ELSE LET error == ThrownError(outcome)
                   retry == f.attempt < PROXY_MAX_RETRIES /\ isRetryableError(error)
               IN IF aborted
                  THEN call' = [call EXCEPT
                            !.out = <<[returns |-> FALSE, message |-> "Request cancelled"]>>,
                            !.frame = [f EXCEPT !.pc = "done", !.made = made]]
                  ELSE IF ~retry
                  THEN call' = [call EXCEPT
                            !.out = <<[returns |-> FALSE,
                                       message |-> "Proxy request failed: " \o error.message]>>,
                            !.frame = [f EXCEPT !.pc = "done", !.made = made]]
                  ELSE call' = [call EXCEPT !.frame = [f EXCEPT !.pc = "delay", !.made = made]]
    /\ UNCHANGED <<now, sources, calendars, events, md, inflight, cycle, rets, allRet, last,
                   synced, syncInterval, timers, clientVars>>

\* await delay(INITIAL_RETRY_DELAY * Math.pow(2, attempt)), then attempt++
ProxyDelay ==
    /\ call.fn = "proxyRequest" /\ call.out = <<>> /\ call.frame.pc = "delay"
    /\ LET f == call.frame IN
       call' = [call EXCEPT !.frame =
                    [f EXCEPT !.pc = "fetch", !.attempt = f.attempt + 1,
                              !.delays = Append(f.delays, INITIAL_RETRY_DELAY * Pow2(f.attempt))]]
    /\ UNCHANGED <<now, sources, calendars, events, md, inflight, cycle, rets, allRet, last,
                   synced, syncInterval, timers, clientVars>>

NextProxy == ProxyAttempt \/ ProxyDelay

SpecProxy == InitProxy /\ [][NextProxy]_vars

\* The requests the call has sent: a fetch handed a signal that is already
\* aborted sends nothing
RequestsSent == SelectSeq(call.frame.made, LAMBDA o : o.kind # "callerAbort" \/ o.sent)

ClaimedWaits == <<1000, 2000, 4000>>

\* The outcomes the claim has retried, and those it has never retried
ClaimedRetryable(o) ==
    \/ o.kind \in {"networkError", "timeout"}
    \/ o.kind = "response" /\ o.status \in 500..599
ClaimedFinal(o) ==
    \/ o.kind = "callerAbort"
    \/ o.kind = "response" /\ o.status \in 400..499

AtMostFourAttemptsAndClaimedWaits ==
    /\ Len(RequestsSent) <= PROXY_MAX_RETRIES + 1
    /\ call.frame.delays = SubSeq(ClaimedWaits, 1, Len(call.frame.delays))
    /\ Len(call.frame.delays) = call.frame.attempt

\* C39: proxyRequest sends at most 4 requests and waits 1 s, 2 s, 4 s between
\* them; a network error, a timeout and every HTTP 5xx response is retried
\* while attempts are left, and no request follows an HTTP 4xx response or
\* the abort of the caller's signal.
C39_ProxyRetries ==
    call.fn = "proxyRequest" =>
        /\ AtMostFourAttemptsAndClaimedWaits
        /\ \A i \in 1..Len(RequestsSent) :
              LET o == RequestsSent[i] IN
              /\ (ClaimedRetryable(o) /\ i <= PROXY_MAX_RETRIES)
                    => (call.frame.pc = "delay" \/ i < Len(call.frame.made))
              /\ ClaimedFinal(o) => i = Len(RequestsSent)

\* What the loop does: at most 4 requests and the claimed waits, a retry
\* exactly when isRetryableError accepts the error's name or message and
\* the caller's signal is not aborted
C39_RetriesByMessage ==
    call.fn = "proxyRequest" =>
        /\ AtMostFourAttemptsAndClaimedWaits
        /\ \A i \in 1..Len(call.frame.made) :
              LET o == call.frame.made[i]
                  retried == call.frame.pc = "delay" \/ i < Len(call.frame.made)
              IN (i < Len(call.frame.made) \/ call.frame.pc # "fetch") =>
                 (retried <=> /\ i <= PROXY_MAX_RETRIES
                              /\ o.kind # "callerAbort"
                              /\ ~(o.kind = "response" /\ o.status \in 200..299)
                              /\ isRetryableError(ThrownError(o)))
        /\ \A i \in 1..Len(call.frame.made) :
              (call.frame.made[i].kind = "callerAbort") => i = Len(call.frame.made)

\* A call whose fetch timed out with attempts left
C39_TimeoutNotRetried ==
    /\ call.fn = "proxyRequest" /\ call.out # <<>>
    /\ Len(call.frame.made) = 1
    /\ call.frame.made[1].kind = "timeout"

\* ---------------------------------------------------------------------
\* CalendarContext.fetchAllEvents (src/contexts/CalendarContext.tsx)
\* ---------------------------------------------------------------------

MaxCalls == 3

\* What GET /api/events and GET /api/sync/status answer
ApiEvents == {{"e1"}, {"e1", "e2"}}
ApiSyncStatus == {"m1", "m2"}
ApiErrorMessage == "Failed to fetch events: Internal Server Error"

\* The calls are numbered in the order they are made; a call that has ended
\* stays in fetchCalls with pc "done"
NewCallId == Cardinality(fetchCalls) + 1

\* finally: the reference is cleared if it is still this call's controller
ClearedRef(c) == IF abortControllerRef = Some(c.id) THEN Null ELSE abortControllerRef

Advance(c, next) == fetchCalls' = (fetchCalls \ {c}) \cup {next}

\* fetchAllEvents(forceRefresh) up to its first await: setError(null), the
\* controller the reference holds is aborted, a new controller takes its
\* place, setLoading(true)
fetchAllEvents(forceRefresh) ==
    /\ Cardinality(fetchCalls) < MaxCalls
    /\ LET new == [id |-> NewCallId, aborted |-> FALSE, applied |-> FALSE,
                   pc |-> IF forceRefresh THEN "triggerSync" ELSE "fetchEvents"]
       IN fetchCalls' = {IF abortControllerRef = Some(c.id)
                         THEN [c EXCEPT !.aborted = TRUE] ELSE c : c \in fetchCalls}
                            \cup {new}
    /\ abortControllerRef' = Some(NewCallId)
    /\ ctxState' = [ctxState EXCEPT !.error = Null, !.loading = TRUE]
    /\ UNCHANGED <<clock, syncLocks, idbEvents, idbSyncMetadata, syncOps>>
    /\ UNCHANGED serverVars

\* await api.triggerSync() resolves
TriggerSyncReturns(c) ==
    /\ c \in fetchCalls /\ c.pc = "triggerSync"
    /\ Advance(c, [c EXCEPT !.pc = "fetchEvents"])
    /\ UNCHANGED <<clock, syncLocks, idbEvents, idbSyncMetadata, syncOps, ctxState,
                   abortControllerRef>>
    /\ UNCHANGED serverVars

\* api.triggerSync() or api.fetchEvents() rejects.  Their fetch is given no
\* signal, so the error is never an AbortError: the catch block sets the
\* error and clears the loading flag, then the finally block runs
ApiCallFails(c) ==
    /\ c \in fetchCalls /\ c.pc \in {"triggerSync", "fetchEvents"}
    /\ ctxState' = [ctxState EXCEPT !.error = Some(ApiErrorMessage), !.loading = FALSE]
    /\ abortControllerRef' = ClearedRef(c)
    /\ Advance(c, [c EXCEPT !.pc = "done"])
    /\ UNCHANGED <<clock, syncLocks, idbEvents, idbSyncMetadata, syncOps>>
    /\ UNCHANGED serverVars

\* await api.fetchEvents({start, end}) resolves, whether or not the call's
\* controller was aborted: setEvents, setLastSyncTime, setIsCacheData,
\* setLoading(false)
FetchEventsReturns(c, fetchedEvents) ==
    /\ c \in fetchCalls /\ c.pc = "fetchEvents"
    /\ ctxState' = [ctxState EXCEPT !.events = fetchedEvents, !.loading = FALSE,
                                    !.appliedBy = Some(c.id)]
    /\ Advance(c, [c EXCEPT !.pc = "getSyncStatus", !.applied = TRUE])
    /\ UNCHANGED <<clock, syncLocks, idbEvents, idbSyncMetadata, syncOps, abortControllerRef>>
    /\ UNCHANGED serverVars

\* await api.getSyncStatus() resolves: setSyncMetadata, setSources, finally
GetSyncStatusReturns(c, metadata) ==
    /\ c \in fetchCalls /\ c.pc = "getSyncStatus"
    /\ ctxState' = [ctxState EXCEPT !.syncMetadata = Some(metadata)]
    /\ abortControllerRef' = ClearedRef(c)
    /\ Advance(c, [c EXCEPT !.pc = "done"])
    /\ UNCHANGED <<clock, syncLocks, idbEvents, idbSyncMetadata, syncOps>>
    /\ UNCHANGED serverVars

\* api.getSyncStatus() rejects: the inner catch logs it; setSources, finally
GetSyncStatusFails(c) ==
    /\ c \in fetchCalls /\ c.pc = "getSyncStatus"
    /\ abortControllerRef' = ClearedRef(c)
    /\ Advance(c, [c EXCEPT !.pc = "done"])
    /\ UNCHANGED <<clock, syncLocks, idbEvents, idbSyncMetadata, syncOps, ctxState>>
    /\ UNCHANGED serverVars

NextContext ==
    \/ \E forceRefresh \in BOOLEAN : fetchAllEvents(forceRefresh)
    \/ \E c \in fetchCalls : TriggerSyncReturns(c)
    \/ \E c \in fetchCalls : ApiCallFails(c)
    \/ \E c \in fetchCalls : \E fetchedEvents \in ApiEvents : FetchEventsReturns(c, fetchedEvents)
    \/ \E c \in fetchCalls : \E metadata \in ApiSyncStatus : GetSyncStatusReturns(c, metadata)
    \/ \E c \in fetchCalls : GetSyncStatusFails(c)

SpecContext == Init /\ [][NextContext]_vars

\* A step of the call that continues it after one of its awaits
Continues(c) ==
    \/ TriggerSyncReturns(c)
    \/ ApiCallFails(c)
    \/ \E fetchedEvents \in ApiEvents : FetchEventsReturns(c, fetchedEvents)
    \/ \E metadata \in ApiSyncStatus : GetSyncStatusReturns(c, metadata)
    \/ GetSyncStatusFails(c)

\* A newer call has applied its events
Superseded(c) == \E d \in fetchCalls : d.id > c.id /\ d.applied

\* C40: a fetchAllEvents call made while an earlier one is in flight
\* supersedes it: once the newer call has applied its events the earlier
\* call changes neither the displayed events nor the loading flag nor the
\* sync metadata, and when all calls have ended the displayed events are
\* those of the latest call that got any.
C40_EarlierCallSuperseded ==
    [][/\ \A c \in fetchCalls :
             (Continues(c) /\ Superseded(c)) =>
                 /\ ctxState'.events = ctxState.events
                 /\ ctxState'.appliedBy = ctxState.appliedBy
                 /\ ctxState'.loading = ctxState.loading
                 /\ ctxState'.syncMetadata = ctxState.syncMetadata
       /\ (\A c \in fetchCalls' : c.pc = "done") =>
              \A c \in fetchCalls' :
                  (c.applied /\ \A d \in fetchCalls' : d.applied => d.id <= c.id)
                      => ctxState'.appliedBy = Some(c.id)
      ]_vars

\* What the code does: the abort reaches no request, so every call that
\* gets its events applies them, aborted or not, and the displayed events
\* are those of the call whose response came last
C40_EveryResponseApplied ==
    [][\A c \in fetchCalls : \A fetchedEvents \in ApiEvents :
          FetchEventsReturns(c, fetchedEvents) =>
              /\ ctxState'.events = fetchedEvents
              /\ ctxState'.appliedBy = Some(c.id)
              /\ ~ctxState'.loading
      ]_vars

====
